---- MODULE Spec2Model ----
(***************************************************************************)
(* A model of the code-index pipeline of Roo-Code: ignore-rule resolution  *)
(* (RooIgnoreController), the LibSQL vector store wrapper, and the         *)
(* indexing state machine that drives them.                                *)
(*                                                                         *)
(* The specifications share the variables below:                           *)
(*   SpecIgnore  the ignore controller against a changing workspace root   *)
(*   SpecFilter  callers of validateAccess and filterPaths                 *)
(*   SpecStore   the vector store wrapper against its backend              *)
(*   SpecEmbed   the LM Studio embedder against its backend                *)
(*   Spec        the index manager: passes, generations, cache, store      *)
(*   SpecSearch, SpecDelete, SpecLifecycle, SpecFastEmbed, SpecUnified     *)
(*               further callers of the store, the manager, the FastEmbed  *)
(*               embedder and the unified ignore controller                *)
(*   SpecWatch   the file watcher: bursts of events and their jobs         *)
(*   SpecRecreate  one recreate of the manager, step by step               *)
(*   SpecReload  the ignore controller's loads started by its watchers     *)
(*   SpecEmbedFair, SpecEmbedders  the embedders under fairness, and both  *)
(*               embedders behind one caller                               *)
(***************************************************************************)
EXTENDS Integers, Sequences, FiniteSets, TLC

VARIABLES
    \* ---- ignore controller (RooIgnoreController.ts) ----
    rooFile,        \* the .rooignore file at the workspace root
    gitFile,        \* the .gitignore file at the workspace root (SpecUnified: and above it)
    controller,     \* the fields of the ignore controller instance
    resolved,       \* TRUE when no ignore file changed since the last resolution
    \* ---- vector store (libsql-vector-store.ts) ----
    collection,     \* the backend index: [exists, points]
    lastCall,       \* the last vector store call and what it returned
    \* ---- index manager ----
    systemState,    \* Standby | Indexing | Indexed | Error
    errorMessage,   \* the error detail shown with the Error state
    generation,     \* the configuration epoch
    workspace,      \* file path -> content version (0: the file does not exist)
    cache,          \* ChangeCache: file path -> content version (0: no entry)
    pending,        \* FileWatcher: paths of the events not yet handed to a pass
    ops,            \* the operations in flight (validation, recreate, passes)
    journal,        \* what the last step of the manager did
    services,       \* the ignore controller instance the manager holds and hands out
    \* ---- embedder (lmstudio.ts) ----
    embedder,       \* the createEmbeddings / validateConfiguration call in progress
    \* ---- a caller of the ignore controller ----
    query           \* the last validateAccess / filterPaths call and its result

ignoreVars == <<rooFile, gitFile, controller, resolved>>
storeVars == <<collection, lastCall>>
indexVars ==
    <<systemState, errorMessage, generation, workspace, cache, pending, ops, journal, services>>
indexVarsButPending ==
    <<systemState, errorMessage, generation, workspace, cache, ops, journal, services>>
probeVars == <<embedder, query>>
vars == <<rooFile, gitFile, controller, resolved, collection, lastCall,
          systemState, errorMessage, generation, workspace, cache, pending, ops, journal,
          services, embedder, query>>

(***************************************************************************)
(* Bounds of the model.                                                    *)
(***************************************************************************)
MaxLines == 2

Range(s) == {s[i] : i \in 1..Len(s)}

(***************************************************************************)
(* Ignore files and patterns.  A file's content is a sequence of lines; a  *)
(* line is blank (whitespace only) or one pattern.  A pattern is a         *)
(* directory pattern "name/", a glob "*.ext" or a plain file name.         *)
(***************************************************************************)
BlankLine == [kind |-> "blank", name |-> ""]
DirPattern(n) == [kind |-> "dir", name |-> n]
ExtPattern(e) == [kind |-> "ext", name |-> e]
NamePattern(n) == [kind |-> "name", name |-> n]

\* The value of a content field that holds `undefined`.
Undefined == << [kind |-> "undefined", name |-> ""] >>

\* Lines the ignore files of the model may hold.
RooIgnoreLines == {BlankLine, DirPattern("secret")}
GitIgnoreLines == {BlankLine, DirPattern("node_modules")}

RECURSIVE SeqsUpTo(_, _)
SeqsUpTo(S, n) ==
    IF n = 0 THEN {<<>>}
    ELSE LET shorter == SeqsUpTo(S, n - 1)
         IN shorter \cup {Append(s, x) : s \in {t \in shorter : Len(t) = n - 1}, x \in S}

\* A file is absent, present but unreadable (reading it throws), or readable.
AbsentFile == [exists |-> FALSE, readable |-> FALSE, content |-> <<>>]
UnreadableFile == [exists |-> TRUE, readable |-> FALSE, content |-> <<>>]
ReadableFile(c) == [exists |-> TRUE, readable |-> TRUE, content |-> c]
FileStates(lines) ==
    {AbsentFile, UnreadableFile} \cup {ReadableFile(c) : c \in SeqsUpTo(lines, MaxLines)}

\* String.prototype.trim on a content: leading and trailing whitespace goes.
RECURSIVE TrimLeft(_)
TrimLeft(c) ==
    IF c = <<>> THEN <<>>
    ELSE IF Head(c) = BlankLine THEN TrimLeft(Tail(c)) ELSE c

RECURSIVE TrimRight(_)
TrimRight(c) ==
    IF c = <<>> THEN <<>>
    ELSE IF c[Len(c)] = BlankLine THEN TrimRight(SubSeq(c, 1, Len(c) - 1)) ELSE c

Trim(c) == TrimRight(TrimLeft(c))

\* ignore().add(content): every non-blank line becomes a rule, in order.
RECURSIVE PatternsOf(_)
PatternsOf(c) ==
    IF c = <<>> THEN <<>>
    ELSE IF Head(c) = BlankLine THEN PatternsOf(Tail(c))
         ELSE <<Head(c)>> \o PatternsOf(Tail(c))

Add(instance, c) == instance \o PatternsOf(c)

defaultPatterns ==
    << DirPattern("node_modules"), DirPattern("vendor"), DirPattern(".git"),
       DirPattern(".svn"), DirPattern(".hg"), DirPattern("dist"),
       DirPattern("build"), DirPattern("out"), DirPattern("target"),
       ExtPattern("log"), NamePattern(".DS_Store"), NamePattern("Thumbs.db") >>

addDefaultIgnorePatterns(c) ==
    [c EXCEPT !.ignoreInstance = Add(c.ignoreInstance, defaultPatterns)]

\* The catch block of loadIgnorePatterns: the fields set before the throw stay.
CatchLoadError(c) ==
    addDefaultIgnorePatterns([c EXCEPT !.currentIgnoreSource = "default"])

\* Lines 108-123: the .gitignore fallback.
LoadGitIgnoreFallback(c, git) ==
    IF git.exists
    THEN IF ~git.readable
         THEN CatchLoadError(c)
         ELSE [c EXCEPT !.gitIgnoreContent = git.content,
                        !.currentIgnoreSource = "gitignore",
                        !.ignoreInstance =
                            Add(Add(c.ignoreInstance, git.content), <<NamePattern(".gitignore")>>)]
    ELSE addDefaultIgnorePatterns(
             [c EXCEPT !.gitIgnoreContent = Undefined, !.currentIgnoreSource = "default"])

\* loadIgnorePatterns with `if (content)` in place of `if (trimmedContent)`.
loadIgnorePatternsUntrimmed(c, roo, git) ==
    LET c0 == [c EXCEPT !.ignoreInstance = <<>>]
    IN  IF roo.exists
        THEN IF ~roo.readable
             THEN CatchLoadError(c0)
             ELSE IF roo.content # <<>>
                  THEN [c0 EXCEPT !.rooIgnoreContent = roo.content,
                                  !.gitIgnoreContent = Undefined,
                                  !.currentIgnoreSource = "rooignore",
                                  !.ignoreInstance =
                                      Add(Add(c0.ignoreInstance, roo.content),
                                          <<NamePattern(".rooignore")>>)]
                  ELSE LoadGitIgnoreFallback([c0 EXCEPT !.rooIgnoreContent = roo.content], git)
        ELSE LoadGitIgnoreFallback([c0 EXCEPT !.rooIgnoreContent = Undefined], git)

\* loadIgnorePatterns run to completion against the files roo and git.
loadIgnorePatterns(c, roo, git) ==
    LET c0 == [c EXCEPT !.ignoreInstance = <<>>]
    IN  IF roo.exists
        THEN IF ~roo.readable
             THEN CatchLoadError(c0)
             ELSE IF Trim(roo.content) # <<>>
                  THEN [c0 EXCEPT !.rooIgnoreContent = roo.content,
                                  !.gitIgnoreContent = Undefined,
                                  !.currentIgnoreSource = "rooignore",
                                  !.ignoreInstance =
                                      Add(Add(c0.ignoreInstance, roo.content),
                                          <<NamePattern(".rooignore")>>)]
                  ELSE LoadGitIgnoreFallback([c0 EXCEPT !.rooIgnoreContent = roo.content], git)
        ELSE LoadGitIgnoreFallback([c0 EXCEPT !.rooIgnoreContent = Undefined], git)

\* The controller as its constructor leaves it.
NewController ==
    [ignoreInstance |-> <<>>, rooIgnoreContent |-> Undefined,
     gitIgnoreContent |-> Undefined, currentIgnoreSource |-> "none"]

(***************************************************************************)
(* Paths.  A path relative to the workspace root is its directory names    *)
(* and its file name <<base, extension>>; outside says that the path       *)
(* leaves the root (its relative form starts with "..").                   *)
(***************************************************************************)
Path(outside, dirs, base, ext) ==
    [outside |-> outside, dirs |-> dirs, base |-> base, ext |-> ext]

SrcFile == Path(FALSE, <<"src">>, "a", "ts")
DepFile == Path(FALSE, <<"node_modules">>, "dep", "js")
SecretFile == Path(FALSE, <<"secret">>, "key", "txt")
LogFile == Path(FALSE, <<>>, "debug", "log")
RooIgnoreFile == Path(FALSE, <<>>, ".rooignore", "")
OutsideFile == Path(TRUE, <<"node_modules">>, "file", "log")

ProbePaths == {SrcFile, DepFile, SecretFile, LogFile, RooIgnoreFile, OutsideFile}

PatternMatches(p, path) ==
    CASE p.kind = "dir" -> p.name \in Range(path.dirs)
      [] p.kind = "ext" -> path.ext = p.name
      [] p.kind = "name" -> (path.ext = "" /\ path.base = p.name) \/ p.name \in Range(path.dirs)
      [] OTHER -> FALSE

\* Ignore.ignores(relativePath) of a path inside the root.
Ignores(instance, path) == \E i \in 1..Len(instance) : PatternMatches(instance[i], path)

\* A validateAccess that lets every path through.
validateAccessAllowAll(c, path) == TRUE

\* A path as a caller spells it: the relative path itself ("src/a.ts"), or
\* a longer way to the same file ("./src/a.ts").
Spelled(form, path) == [form |-> form, path |-> path]
FilePaths ==
    {Spelled(form, path) : form \in {"plain", "dotted"},
                           path \in {SrcFile, DepFile, SecretFile, OutsideFile}}

\* path.relative(cwd, path.resolve(cwd, filePath)): every spelling of a file
\* gives its one relative path.
Relative(filePath) == IF "form" \in DOMAIN filePath THEN filePath.path ELSE filePath

\* A validateAccess without its catch block: what the ignore library
\* answers when it is asked about a path that leaves the root.
validateAccessNoCatch(c, filePath) ==
    ~Ignores(c.ignoreInstance, Relative(filePath))

\* validateAccess: the ignore library throws for a path that leaves the root,
\* and the catch block allows it.
validateAccess(c, filePath) ==
    LET relativePath == Relative(filePath)
    IN IF relativePath.outside THEN TRUE ELSE ~Ignores(c.ignoreInstance, relativePath)

\* A filter that hands back the normalised paths.
RECURSIVE AllowedPathsRelative(_, _)
AllowedPathsRelative(c, paths) ==
    IF paths = <<>> THEN <<>>
    ELSE IF validateAccess(c, Head(paths))
         THEN <<Spelled("plain", Relative(Head(paths)))>>
                  \o AllowedPathsRelative(c, Tail(paths))
         ELSE AllowedPathsRelative(c, Tail(paths))

\* Lines 242-248: map to { path, allowed }, filter on allowed, map to path.
RECURSIVE AllowedPaths(_, _)
AllowedPaths(c, paths) ==
    IF paths = <<>> THEN <<>>
    ELSE IF validateAccess(c, Head(paths))
         THEN <<Head(paths)>> \o AllowedPaths(c, Tail(paths))
         ELSE AllowedPaths(c, Tail(paths))

\* A filterPaths whose catch block keeps what was allowed before the throw.
filterPathsPartial(c, paths, throwAt) ==
    IF throwAt \in 1..Len(paths)
    THEN AllowedPaths(c, SubSeq(paths, 1, throwAt - 1))
    ELSE AllowedPaths(c, paths)

\* filterPaths; throwAt is the place in paths at which the evaluation
\* throws (0: it does not), and the catch block answers with no path.
filterPaths(c, paths, throwAt) ==
    IF throwAt \in 1..Len(paths) THEN <<>> ELSE AllowedPaths(c, paths)

(***************************************************************************)
(* The vector store.  A point is a chunk of a file: its id is fixed by the *)
(* file path and the chunk's place in the file, its payload carries the    *)
(* path and the chunk's text (here: the version of the file's content).    *)
(***************************************************************************)
ScoreLevels == 3
MaxResults == 2

IndexPaths == {SrcFile, DepFile}

Point(path, n, v) == [id |-> <<path, n>>, filePath |-> path, codeChunk |-> v]

\* The order in which the backend stores points (by path, then by chunk).
PathRank(p) == IF p = SrcFile THEN 0 ELSE IF p = DepFile THEN 1 ELSE 2
StoredBefore(x, y) ==
    \/ PathRank(x.id[1]) < PathRank(y.id[1])
    \/ PathRank(x.id[1]) = PathRank(y.id[1]) /\ x.id[2] <= y.id[2]

RECURSIVE InStorageOrder(_)
InStorageOrder(ps) ==
    IF ps = {} THEN <<>>
    ELSE LET first == CHOOSE x \in ps : \A y \in ps : StoredBefore(x, y)
         IN <<first>> \o InStorageOrder(ps \ {first})

\* A score the backend did not set (result.score is undefined).
NoScore == -1
\* DEFAULT_SEARCH_MIN_SCORE, on the model's scale of scores 0..ScoreLevels.
DEFAULT_SEARCH_MIN_SCORE == 1
\* The topK of the query that looks up the points of a file to delete.
DeleteTopK == 10000

\* this.vectorSize, the dimension the index is created with.
VectorSize == 4

NoCollection == [exists |-> FALSE, dimension |-> 0, points |-> {}]

\* What a vector store call hands back: the collection after it, whether it
\* threw, its value, the number of backend calls it made, and whether one
\* of them failed (a failure makes the call throw unless said otherwise).
Outcome(col, threw, value, calls) ==
    [col |-> col, threw |-> threw, value |-> value, calls |-> calls, failed |-> threw]

\* An initialize that creates the index without looking for it first.
initializeRecreating(col, listFails, createFails) ==
    IF createFails THEN Outcome(col, TRUE, FALSE, 1)
    ELSE Outcome([exists |-> TRUE, dimension |-> VectorSize, points |-> {}], FALSE, TRUE, 1)

\* initialize(); listFails and createFails say which backend call fails.
initialize(col, listFails, createFails) ==
    IF listFails THEN Outcome(col, TRUE, FALSE, 1)
    ELSE IF ~col.exists
         THEN IF createFails THEN Outcome(col, TRUE, FALSE, 2)
              ELSE Outcome([exists |-> TRUE, dimension |-> VectorSize, points |-> {}],
                           FALSE, TRUE, 2)
         ELSE Outcome(col, FALSE, FALSE, 1)

\* A backend whose upsert adds a point beside the stored point of its id.
BackendUpsertAppending(points, new) == points \cup new

\* The backend's upsert: a point replaces the stored point of the same id.
BackendUpsert(points, new) ==
    {x \in points : \A y \in new : y.id # x.id} \cup new

\* An upsertPoints that swallows the backend's error.
upsertPointsSwallowing(col, points, fails) ==
    IF points = {} \/ fails \/ ~col.exists
    THEN [Outcome(col, FALSE, FALSE, 1) EXCEPT !.failed = points # {}]
    ELSE Outcome([col EXCEPT !.points = BackendUpsert(col.points, points)], FALSE, FALSE, 1)

\* upsertPoints(points); the backend call fails when asked to or when the
\* index does not exist.
upsertPoints(col, points, fails) ==
    IF points = {} THEN Outcome(col, FALSE, FALSE, 0)
    ELSE IF fails \/ ~col.exists THEN Outcome(col, TRUE, FALSE, 1)
         ELSE Outcome([col EXCEPT !.points = BackendUpsert(col.points, points)], FALSE, FALSE, 1)

\* Array.prototype.sort((a, b) => b.score - a.score): a stable sort, the
\* higher score first.
RECURSIVE InsertByScore(_, _)
InsertByScore(sorted, r) ==
    IF sorted = <<>> THEN <<r>>
    ELSE IF Head(sorted).score >= r.score
         THEN <<Head(sorted)>> \o InsertByScore(Tail(sorted), r)
         ELSE <<r>> \o sorted

\* A search that returns the records in the backend's order.
SortByScoreSkipped(rs) == rs

RECURSIVE SortByScore(_)
SortByScore(rs) ==
    IF rs = <<>> THEN <<>>
    ELSE InsertByScore(SortByScore(SubSeq(rs, 1, Len(rs) - 1)), rs[Len(rs)])

\* Lines 148-163: a backend record with metadata becomes a result, and a
\* missing score becomes 0.
RECURSIVE TransformResults(_)
TransformResults(searchResults) ==
    IF searchResults = <<>> THEN <<>>
    ELSE LET r == Head(searchResults)
         IN (IF r.hasMetadata
             THEN << [id |-> r.id,
                      score |-> IF r.score = NoScore THEN 0 ELSE r.score,
                      filePath |-> r.filePath] >>
             ELSE <<>>) \o TransformResults(Tail(searchResults))

\* search(): searchResults is what the backend's query handed back.
search(col, minScore, searchResults, fails) ==
    IF fails \/ ~col.exists THEN Outcome(col, TRUE, <<>>, 1)
    ELSE Outcome(col, FALSE, SortByScore(TransformResults(searchResults)), 1)

\* The minimum score a search uses.
ActualMinScore(minScore) == IF minScore = NoScore THEN DEFAULT_SEARCH_MIN_SCORE ELSE minScore

\* A lookup that asks the backend for the best match only.
QueryByFilePathTopOne(points, p, topK) ==
    SubSeq(InStorageOrder({x \in points : x.filePath = p}), 1,
           IF \E x \in points : x.filePath = p THEN 1 ELSE 0)

\* The backend's query with the filter filePath = p: the stored points of
\* that file, at most topK of them.
QueryByFilePath(points, p, topK) ==
    LET found == InStorageOrder({x \in points : x.filePath = p})
    IN SubSeq(found, 1, IF Len(found) < topK THEN Len(found) ELSE topK)

\* A deletion that empties the index once a path has a match.
DeleteFoundWholeIndex(points, found, okCalls, calls) ==
    IF found = <<>> THEN [points |-> points, threw |-> FALSE, calls |-> calls]
    ELSE IF calls >= okCalls THEN [points |-> points, threw |-> TRUE, calls |-> calls + 1]
         ELSE [points |-> {}, threw |-> FALSE, calls |-> calls + 1]

\* Lines 205-210: delete each found vector by id; okCalls backend calls
\* succeed before one fails.
RECURSIVE DeleteFound(_, _, _, _)
DeleteFound(points, found, okCalls, calls) ==
    IF found = <<>> THEN [points |-> points, threw |-> FALSE, calls |-> calls]
    ELSE IF calls >= okCalls THEN [points |-> points, threw |-> TRUE, calls |-> calls + 1]
         ELSE DeleteFound({x \in points : x.id # Head(found).id}, Tail(found), okCalls, calls + 1)

\* Lines 192-211: for each path, query the points of the path, then delete.
RECURSIVE DeleteEachPath(_, _, _, _)
DeleteEachPath(points, filePaths, okCalls, calls) ==
    IF filePaths = <<>> THEN [points |-> points, threw |-> FALSE, calls |-> calls]
    ELSE IF calls >= okCalls THEN [points |-> points, threw |-> TRUE, calls |-> calls + 1]
         ELSE LET found == QueryByFilePath(points, Head(filePaths), DeleteTopK)
                  after == DeleteFound(points, found, okCalls, calls + 1)
              IN IF after.threw THEN after
                 ELSE DeleteEachPath(after.points, Tail(filePaths), okCalls, after.calls)

\* deletePointsByMultipleFilePaths(filePaths)
deletePointsByMultipleFilePaths(col, filePaths, okCalls) ==
    IF filePaths = <<>> THEN Outcome(col, FALSE, FALSE, 0)
    ELSE IF ~col.exists THEN Outcome(col, TRUE, FALSE, 1)
         ELSE LET after == DeleteEachPath(col.points, filePaths, okCalls, 0)
              IN Outcome([col EXCEPT !.points = after.points], after.threw, FALSE, after.calls)

deletePointsByFilePath(col, filePath, okCalls) ==
    deletePointsByMultipleFilePaths(col, <<filePath>>, okCalls)

\* A clearCollection that drops the index.
clearCollectionDropping(col, fails) ==
    IF fails \/ ~col.exists THEN Outcome(col, TRUE, FALSE, 1)
    ELSE Outcome(NoCollection, FALSE, FALSE, 1)

\* clearCollection(): truncate the index.
clearCollection(col, fails) ==
    IF fails \/ ~col.exists THEN Outcome(col, TRUE, FALSE, 1)
    ELSE Outcome([col EXCEPT !.points = {}], FALSE, FALSE, 1)

\* collectionExists(): a failing listIndexes reads as "does not exist".
collectionExists(col, listFails) == IF listFails THEN FALSE ELSE col.exists

\* A deleteCollection that asks the backend to drop the index unseen.
deleteCollectionUnchecked(col, listFails, deleteFails) ==
    IF deleteFails \/ ~col.exists THEN Outcome(col, TRUE, FALSE, 1)
    ELSE Outcome(NoCollection, FALSE, FALSE, 1)

\* deleteCollection(): drop the index when collectionExists() says it is
\* there.
deleteCollection(col, listFails, deleteFails) ==
    IF collectionExists(col, listFails)
    THEN IF deleteFails THEN Outcome(col, TRUE, FALSE, 2)
         ELSE Outcome(NoCollection, FALSE, FALSE, 2)
    ELSE [Outcome(col, FALSE, FALSE, 1) EXCEPT !.failed = listFails]

(***************************************************************************)
(* The states a specification leaves alone.                                *)
(***************************************************************************)
NoCall ==
    [op |-> "none", threw |-> FALSE, created |-> FALSE, calls |-> 0,
     minScore |-> 0, returned |-> <<>>, results |-> <<>>,
     before |-> NoCollection, failed |-> FALSE, points |-> {}, filePaths |-> <<>>,
     directoryPrefix |-> <<>>]
NoStep ==
    [kind |-> "none", gen |-> 0, step |-> "none", path |-> SrcFile, version |-> 0, cached |-> 0]

NoError == [cause |-> -1, wrapped |-> FALSE]
EmbedCall(pc) ==
    [pc |-> pc, texts |-> <<>>, remaining |-> <<>>, allEmbeddings |-> <<>>,
     currentBatch |-> <<>>, attempts |-> 0, answers |-> <<>>, delays |-> <<>>,
     sent |-> {}, warned |-> <<>>, error |-> NoError,
     probe |-> [data |-> "none", status |-> 0, code |-> "", message |-> ""],
     result |-> [valid |-> FALSE, error |-> ""]]
NoEmbedCall == EmbedCall("idle")
Query(op) == [op |-> op, paths |-> <<>>, throwAt |-> 0, allowed |-> FALSE, result |-> <<>>]
NoQuery == Query("none")
NoServices == [controller |-> 0, instances |-> 0, watching |-> FALSE, handed |-> 0]

ProbeIdle == embedder = NoEmbedCall /\ query = NoQuery

IgnoreIdle ==
    /\ rooFile = AbsentFile /\ gitFile = AbsentFile
    /\ controller = NewController /\ resolved = FALSE
StoreIdle == collection = NoCollection /\ lastCall = NoCall
IndexIdle ==
    /\ systemState = "Standby" /\ errorMessage = "" /\ generation = 0
    /\ workspace = [p \in IndexPaths |-> 0] /\ cache = [p \in IndexPaths |-> 0]
    /\ pending = {} /\ ops = {} /\ journal = NoStep
    /\ services = NoServices

(***************************************************************************)
(* SpecIgnore: the controller of one workspace root.  The ignore files     *)
(* change, and initialize() (or loadRooIgnore()) resolves the rules; the   *)
(* caller awaits each resolution.                                          *)
(***************************************************************************)
InitIgnore ==
    /\ rooFile \in FileStates(RooIgnoreLines) /\ gitFile \in FileStates(GitIgnoreLines)
    /\ controller = NewController /\ resolved = FALSE
    /\ StoreIdle /\ IndexIdle /\ ProbeIdle

ChangeRooIgnore ==
    /\ \E f \in FileStates(RooIgnoreLines) \ {rooFile} : rooFile' = f
    /\ resolved' = FALSE
    /\ UNCHANGED <<gitFile, controller, storeVars, indexVars, probeVars>>

ChangeGitIgnore ==
    /\ \E f \in FileStates(GitIgnoreLines) \ {gitFile} : gitFile' = f
    /\ resolved' = FALSE
    /\ UNCHANGED <<rooFile, controller, storeVars, indexVars, probeVars>>

Resolve ==
    /\ controller' = loadIgnorePatterns(controller, rooFile, gitFile)
    /\ resolved' = TRUE
    /\ UNCHANGED <<rooFile, gitFile, storeVars, indexVars, probeVars>>

NextIgnore == ChangeRooIgnore \/ ChangeGitIgnore \/ Resolve

SpecIgnore == InitIgnore /\ [][NextIgnore]_vars

(***************************************************************************)
(* SpecReload: the controller's watchers.  Each change of an ignore file   *)
(* calls loadIgnorePatterns() without awaiting it, so several loads may be *)
(* in flight; a load runs up to its next await in one step, and a file is  *)
(* looked at when the await on it resumes.                                 *)
(***************************************************************************)
MaxLoads == 2

Load(id, pc) == [kind |-> "load", id |-> id, pc |-> pc]

ReloadRooFiles ==
    {AbsentFile, ReadableFile(<<DirPattern("secret")>>), ReadableFile(<<BlankLine>>)}
ReloadGitFiles == {AbsentFile, ReadableFile(<<DirPattern("node_modules")>>)}

\* Line 82, the part of loadIgnorePatterns that runs within the call.
LoadStart(c) == [c EXCEPT !.ignoreInstance = <<>>]

\* Lines 86-129: the part of loadIgnorePatterns between one await and the
\* next, as the files are now.  A readFile of a file that is gone or cannot
\* be read throws, and the catch block takes over.
LoadStep(c, pc, roo, git) ==
    CASE pc = "rooExists" ->
             IF roo.exists THEN [c |-> c, pc |-> "rooRead"]
             ELSE [c |-> [c EXCEPT !.rooIgnoreContent = Undefined], pc |-> "gitExists"]
      [] pc = "rooRead" ->
             IF ~(roo.exists /\ roo.readable)
             THEN [c |-> CatchLoadError(c), pc |-> "done"]
             ELSE IF Trim(roo.content) # <<>>
                  THEN [c |-> [c EXCEPT !.rooIgnoreContent = roo.content,
                                         !.gitIgnoreContent = Undefined,
                                         !.currentIgnoreSource = "rooignore",
                                         !.ignoreInstance =
                                             Add(Add(c.ignoreInstance, roo.content),
                                                 <<NamePattern(".rooignore")>>)],
                        pc |-> "done"]
                  ELSE [c |-> [c EXCEPT !.rooIgnoreContent = roo.content],
                        pc |-> "gitExists"]
      [] pc = "gitExists" ->
             IF git.exists THEN [c |-> c, pc |-> "gitRead"]
             ELSE [c |-> addDefaultIgnorePatterns(
                             [c EXCEPT !.gitIgnoreContent = Undefined,
                                       !.currentIgnoreSource = "default"]),
                   pc |-> "done"]
      [] OTHER ->
             IF ~(git.exists /\ git.readable)
             THEN [c |-> CatchLoadError(c), pc |-> "done"]
             ELSE [c |-> [c EXCEPT !.gitIgnoreContent = git.content,
                                    !.currentIgnoreSource = "gitignore",
                                    !.ignoreInstance =
                                        Add(Add(c.ignoreInstance, git.content),
                                            <<NamePattern(".gitignore")>>)],
                   pc |-> "done"]

FreeLoadId == CHOOSE id \in 1..MaxLoads : \A l \in ops : l.id # id

InitReload ==
    /\ rooFile \in ReloadRooFiles /\ gitFile \in ReloadGitFiles
    /\ controller = loadIgnorePatterns(NewController, rooFile, gitFile)
    /\ resolved = TRUE
    /\ systemState = "Standby" /\ errorMessage = "" /\ generation = 0
    /\ workspace = [path \in IndexPaths |-> 0] /\ cache = [path \in IndexPaths |-> 0]
    /\ pending = {} /\ ops = {} /\ journal = NoStep /\ services = NoServices
    /\ StoreIdle /\ ProbeIdle

\* Lines 52-60: the .rooignore changes and its watcher calls the load.
ReloadOnRooIgnore ==
    /\ Cardinality(ops) < MaxLoads
    /\ \E f \in ReloadRooFiles \ {rooFile} : rooFile' = f
    /\ controller' = LoadStart(controller)
    /\ ops' = ops \cup {Load(FreeLoadId, "rooExists")}
    /\ resolved' = FALSE
    /\ UNCHANGED <<gitFile, systemState, errorMessage, generation, workspace, cache, pending,
                   journal, services, storeVars, probeVars>>

\* Lines 61-69: the .gitignore changes and its watcher calls the load.
ReloadOnGitIgnore ==
    /\ Cardinality(ops) < MaxLoads
    /\ \E f \in ReloadGitFiles \ {gitFile} : gitFile' = f
    /\ controller' = LoadStart(controller)
    /\ ops' = ops \cup {Load(FreeLoadId, "rooExists")}
    /\ resolved' = FALSE
    /\ UNCHANGED <<rooFile, systemState, errorMessage, generation, workspace, cache, pending,
                   journal, services, storeVars, probeVars>>

\* A load in flight resumes from its await and runs to the next one, or to
\* its end.
ReloadResume ==
    \E l \in ops :
        LET next == LoadStep(controller, l.pc, rooFile, gitFile)
        IN /\ controller' = next.c
           /\ ops' = IF next.pc = "done" THEN ops \ {l}
                     ELSE (ops \ {l}) \cup {Load(l.id, next.pc)}
           /\ resolved' = (ops' = {})
           /\ UNCHANGED <<rooFile, gitFile, systemState, errorMessage, generation, workspace,
                          cache, pending, journal, services, storeVars, probeVars>>

NextReload == ReloadOnRooIgnore \/ ReloadOnGitIgnore \/ ReloadResume

SpecReload == InitReload /\ [][NextReload]_vars

(***************************************************************************)
(* SpecFilter: a controller that has loaded its rules answers the calls of *)
(* its users.                                                              *)
(***************************************************************************)
MaxPaths == 2

InitFilter ==
    /\ rooFile \in FileStates(RooIgnoreLines) /\ gitFile = AbsentFile
    /\ controller = loadIgnorePatterns(NewController, rooFile, gitFile)
    /\ resolved = TRUE
    /\ StoreIdle /\ IndexIdle /\ ProbeIdle

\* validateAccess(filePath) is called.
FilterValidateAccess ==
    /\ query = NoQuery
    /\ \E filePath \in FilePaths :
           query' = [Query("validateAccess") EXCEPT
                        !.paths = <<filePath>>,
                        !.allowed = validateAccess(controller, filePath)]
    /\ UNCHANGED <<ignoreVars, storeVars, indexVars, embedder>>

\* filterPaths(paths) is called; the evaluation of a path may throw.
FilterFilterPaths ==
    /\ query = NoQuery
    /\ \E paths \in SeqsUpTo(FilePaths, MaxPaths) :
           \E throwAt \in 0..Len(paths) :
               query' = [Query("filterPaths") EXCEPT
                            !.paths = paths, !.throwAt = throwAt,
                            !.result = filterPaths(controller, paths, throwAt)]
    /\ UNCHANGED <<ignoreVars, storeVars, indexVars, embedder>>

\* The caller takes the answer.
FilterReturn ==
    /\ query # NoQuery
    /\ query' = NoQuery
    /\ UNCHANGED <<ignoreVars, storeVars, indexVars, embedder>>

NextFilter == FilterValidateAccess \/ FilterFilterPaths \/ FilterReturn

SpecFilter == InitFilter /\ [][NextFilter]_vars

(***************************************************************************)
(* SpecStore: the vector store wrapper called by its users, over a backend *)
(* whose calls may fail.                                                   *)
(***************************************************************************)
StorePoints ==
    {Point(SrcFile, 1, 1), Point(SrcFile, 2, 1), Point(SrcFile, 1, 2), Point(DepFile, 1, 1)}

\* The records a backend query may hand back: a stored point with a score
\* (or none) and with or without its metadata, in any order.
BackendRecords(points) ==
    {[id |-> x.id, filePath |-> x.filePath, score |-> sc, hasMetadata |-> m] :
        x \in points, sc \in (0..ScoreLevels) \cup {NoScore}, m \in BOOLEAN}

InitStore ==
    /\ StoreIdle /\ IgnoreIdle /\ IndexIdle /\ ProbeIdle

Returned(op, out) ==
    [NoCall EXCEPT !.op = op, !.threw = out.threw, !.calls = out.calls,
                   !.failed = out.failed, !.before = collection]

\* The caller takes the result of its call; it makes one call at a time.
StoreReturn ==
    /\ lastCall # NoCall
    /\ lastCall' = NoCall
    /\ UNCHANGED <<collection, ignoreVars, indexVars, probeVars>>

StoreInitialize ==
    /\ lastCall = NoCall
    /\ \E listFails, createFails \in BOOLEAN :
        LET out == initialize(collection, listFails, createFails)
        IN /\ collection' = out.col
           /\ lastCall' = [Returned("initialize", out) EXCEPT !.created = out.value]
           /\ UNCHANGED <<ignoreVars, indexVars, probeVars>>

StoreUpsert ==
    /\ lastCall = NoCall
    /\ \E points \in SUBSET StorePoints, fails \in BOOLEAN :
        /\ \A x, y \in points : x.id = y.id => x = y
        /\ LET out == upsertPoints(collection, points, fails)
           IN /\ collection' = out.col
              /\ lastCall' = [Returned("upsertPoints", out) EXCEPT !.points = points]
        /\ UNCHANGED <<ignoreVars, indexVars, probeVars>>

StoreSearch ==
    /\ lastCall = NoCall
    /\ \E minScore \in (0..ScoreLevels) \cup {NoScore}, fails \in BOOLEAN,
       searchResults \in SeqsUpTo(BackendRecords(collection.points), MaxResults) :
        LET out == search(collection, minScore, searchResults, fails)
        IN /\ collection' = out.col
           /\ lastCall' = [Returned("search", out) EXCEPT
                              !.minScore = ActualMinScore(minScore),
                              !.returned = IF out.threw THEN <<>> ELSE searchResults,
                              !.results = out.value]
           /\ UNCHANGED <<ignoreVars, indexVars, probeVars>>

StoreDeleteByFilePath ==
    /\ lastCall = NoCall
    /\ \E p \in IndexPaths, okCalls \in 0..3 :
        LET out == deletePointsByFilePath(collection, p, okCalls)
        IN /\ collection' = out.col
           /\ lastCall' = [Returned("deletePointsByFilePath", out) EXCEPT
                              !.filePaths = <<p>>]
           /\ UNCHANGED <<ignoreVars, indexVars, probeVars>>

StoreDeleteByMultipleFilePaths ==
    /\ lastCall = NoCall
    /\ \E filePaths \in SeqsUpTo(IndexPaths, 2), okCalls \in 0..5 :
        LET out == deletePointsByMultipleFilePaths(collection, filePaths, okCalls)
        IN /\ collection' = out.col
           /\ lastCall' = [Returned("deletePointsByMultipleFilePaths", out) EXCEPT
                              !.filePaths = filePaths]
           /\ UNCHANGED <<ignoreVars, indexVars, probeVars>>

StoreClear ==
    /\ lastCall = NoCall
    /\ \E fails \in BOOLEAN :
        LET out == clearCollection(collection, fails)
        IN /\ collection' = out.col
           /\ lastCall' = Returned("clearCollection", out)
           /\ UNCHANGED <<ignoreVars, indexVars, probeVars>>

StoreDrop ==
    /\ lastCall = NoCall
    /\ \E listFails, deleteFails \in BOOLEAN :
        LET out == deleteCollection(collection, listFails, deleteFails)
        IN /\ collection' = out.col
           /\ lastCall' = Returned("deleteCollection", out)
           /\ UNCHANGED <<ignoreVars, indexVars, probeVars>>

NextStore ==
    \/ StoreInitialize \/ StoreUpsert \/ StoreSearch \/ StoreDeleteByFilePath
    \/ StoreDeleteByMultipleFilePaths \/ StoreClear \/ StoreDrop \/ StoreReturn

SpecStore == InitStore /\ [][NextStore]_vars

(***************************************************************************)
(* SpecSearch: search with a directory prefix.  The wrapper hands the      *)
(* backend a filter on the pathSegments it stored with each point, and the *)
(* backend answers with records that pass the filter.                      *)
(***************************************************************************)
UtilFile == Path(FALSE, <<"src", "utils">>, "u", "ts")
NestedFile == Path(FALSE, <<"lib", "src">>, "b", "ts")
SearchPaths == {SrcFile, UtilFile, NestedFile, DepFile}

\* A directory prefix as its directory names; <<>> is no prefix given.
DirectoryPrefixes == {<<>>, <<"src">>, <<"src", "utils">>, <<"lib">>}

\* One element of filePath.split(path.sep): a directory name, or the file
\* name with its extension.
Segment(name, ext) == [name |-> name, ext |-> ext]

\* Line 92: the pathSegments stored with a point.
PathSegments(filePath) ==
    [i \in 1..Len(filePath.dirs) |-> Segment(filePath.dirs[i], "")]
        \o <<Segment(filePath.base, filePath.ext)>>

\* Lines 127-136: no filter without a prefix, else pathSegments $in segments.
NoFilter == [defined |-> FALSE, segments |-> <<>>]
SearchFilter(directoryPrefix) ==
    IF directoryPrefix = <<>> THEN NoFilter
    ELSE [defined |-> TRUE,
          segments |-> [i \in 1..Len(directoryPrefix) |-> Segment(directoryPrefix[i], "")]]

\* The backend's $in on an array field: the record passes when one of its
\* pathSegments is one of the given values.
PassesFilter(filter, point) ==
    ~filter.defined
        \/ \E segment \in Range(PathSegments(point.filePath)) :
               segment \in Range(filter.segments)

\* The answers the backend may give to the query: records that pass the
\* filter, each once, at most MaxResults of them, in any order.
QueryAnswers(points, filter) ==
    LET records == {[id |-> x.id, filePath |-> x.filePath, score |-> ScoreLevels,
                     hasMetadata |-> TRUE] : x \in {y \in points : PassesFilter(filter, y)}}
    IN {a \in SeqsUpTo(records, MaxResults) :
           \A i, j \in 1..Len(a) : a[i] = a[j] => i = j}

InitSearch ==
    /\ \E paths \in SUBSET SearchPaths :
           collection = [exists |-> TRUE, dimension |-> VectorSize,
                         points |-> {Point(path, 1, 1) : path \in paths}]
    /\ lastCall = NoCall
    /\ IgnoreIdle /\ IndexIdle /\ ProbeIdle

\* search(queryVector, directoryPrefix) is called.
SearchIn ==
    /\ lastCall = NoCall
    /\ \E directoryPrefix \in DirectoryPrefixes, fails \in BOOLEAN :
        \E searchResults \in QueryAnswers(collection.points, SearchFilter(directoryPrefix)) :
            LET out == search(collection, NoScore, searchResults, fails)
            IN /\ collection' = out.col
               /\ lastCall' = [Returned("search", out) EXCEPT
                                  !.minScore = ActualMinScore(NoScore),
                                  !.directoryPrefix = directoryPrefix,
                                  !.returned = IF out.threw THEN <<>> ELSE searchResults,
                                  !.results = out.value]
    /\ UNCHANGED <<ignoreVars, indexVars, probeVars>>

NextSearch == SearchIn \/ StoreReturn

SpecSearch == InitSearch /\ [][NextSearch]_vars

(***************************************************************************)
(* SpecDelete: deletion by file path over files with many records.  Here   *)
(* the collection holds, per file path, the number of its records.         *)
(***************************************************************************)
Min(a, b) == IF a < b THEN a ELSE b

\* The numbers of records a file may have in the collection.
RecordCounts == {0, 1, DeleteTopK, DeleteTopK + 1}

\* Lines 194-210 on counts: the query hands back at most topK records of
\* the path, and each of them is deleted by id.
RECURSIVE DeleteEachPathCounted(_, _, _)
DeleteEachPathCounted(counts, filePaths, calls) ==
    IF filePaths = <<>> THEN [counts |-> counts, calls |-> calls]
    ELSE LET filePath == Head(filePaths)
             found == Min(counts[filePath], DeleteTopK)
         IN DeleteEachPathCounted([counts EXCEPT ![filePath] = @ - found],
                                  Tail(filePaths), calls + 1 + found)

\* deletePointsByMultipleFilePaths(filePaths) on counts; fails says that
\* the first backend call fails.
deletePointsByMultipleFilePathsCounted(col, filePaths, fails) ==
    IF filePaths = <<>> THEN Outcome(col, FALSE, FALSE, 0)
    ELSE IF fails \/ ~col.exists THEN Outcome(col, TRUE, FALSE, 1)
         ELSE LET after == DeleteEachPathCounted(col.points, filePaths, 0)
              IN Outcome([col EXCEPT !.points = after.counts], FALSE, FALSE, after.calls)

InitDelete ==
    /\ collection \in [exists : {TRUE}, dimension : {VectorSize},
                       points : [IndexPaths -> RecordCounts]]
    /\ lastCall = NoCall
    /\ IgnoreIdle /\ IndexIdle /\ ProbeIdle

\* deletePointsByFilePath(p) is called.
DeleteByFilePath ==
    /\ lastCall = NoCall
    /\ \E p \in IndexPaths, fails \in BOOLEAN :
        LET out == deletePointsByMultipleFilePathsCounted(collection, <<p>>, fails)
        IN /\ collection' = out.col
           /\ lastCall' = [Returned("deletePointsByFilePath", out) EXCEPT
                              !.filePaths = <<p>>]
    /\ UNCHANGED <<ignoreVars, indexVars, probeVars>>

\* deletePointsByMultipleFilePaths(filePaths) is called.
DeleteByMultipleFilePaths ==
    /\ lastCall = NoCall
    /\ \E filePaths \in SeqsUpTo(IndexPaths, 2), fails \in BOOLEAN :
        LET out == deletePointsByMultipleFilePathsCounted(collection, filePaths, fails)
        IN /\ collection' = out.col
           /\ lastCall' = [Returned("deletePointsByMultipleFilePaths", out) EXCEPT
                              !.filePaths = filePaths]
    /\ UNCHANGED <<ignoreVars, indexVars, probeVars>>

NextDelete == DeleteByFilePath \/ DeleteByMultipleFilePaths \/ StoreReturn

SpecDelete == InitDelete /\ [][NextDelete]_vars

(***************************************************************************)
(* The embedder's self-test (CodeIndexLmStudioEmbedder).  A probe outcome  *)
(* is what embeddings.create did for the test text: it returned data (one  *)
(* embedding or none) or threw an error with a status, a code and a        *)
(* message.                                                                *)
(***************************************************************************)
ProbeOk == [data |-> "one", status |-> 0, code |-> "", message |-> ""]
ProbeEmpty == [data |-> "none", status |-> 0, code |-> "", message |-> ""]
ProbeThrows(status, code, message) ==
    [data |-> "throws", status |-> status, code |-> code, message |-> message]

ProbeOutcomes ==
    {ProbeOk, ProbeEmpty,
     ProbeThrows(404, "", "404 model not found"),
     ProbeThrows(0, "ECONNREFUSED", "connect ECONNREFUSED"),
     ProbeThrows(0, "", "fetch failed"),
     ProbeThrows(0, "ENOTFOUND", "getaddrinfo ENOTFOUND"),
     ProbeThrows(500, "", "internal error")}

\* The answers the backend gives to the self-test at the start of indexing.
StartProbes ==
    {ProbeOk, ProbeThrows(404, "", "404 model not found"),
     ProbeThrows(0, "ECONNREFUSED", "connect ECONNREFUSED")}

\* An includes() that finds nothing in any message.
MessageIncludesNothing(message, text) == FALSE

\* error.message.includes(text), for the messages of the model.
MessageIncludes(message, text) ==
    CASE text = "ECONNREFUSED" -> message = "connect ECONNREFUSED"
      [] text = "404" -> message = "404 model not found"
      [] text = "fetch failed" -> message = "fetch failed"
      [] text = "ENOTFOUND" -> message = "getaddrinfo ENOTFOUND"
      [] OTHER -> FALSE

Valid == [valid |-> TRUE, error |-> ""]
Invalid(error) == [valid |-> FALSE, error |-> error]

\* withValidationErrorHandling after beforeStandardHandling returned
\* undefined: the error is caught and reported as a configuration error.
StandardHandling(probe) == Invalid("embeddings:validation.configurationError")

\* validateConfiguration that takes any answer of the backend for a success.
validateConfigurationLenient(probe) == Valid

\* validateConfiguration(): the inner try/catch, then beforeStandardHandling,
\* then the shared standard handling.
validateConfiguration(probe) ==
    IF probe.data = "one" THEN Valid
    ELSE IF probe.data = "none" THEN Invalid("embeddings:validation.invalidResponse")
    ELSE IF MessageIncludes(probe.message, "ECONNREFUSED") \/ probe.code = "ECONNREFUSED"
         THEN Invalid("embeddings:lmstudio.serviceNotRunning")
    ELSE IF probe.status = 404 \/ MessageIncludes(probe.message, "404")
         THEN Invalid("embeddings:lmstudio.modelNotFound")
    ELSE IF MessageIncludes(probe.message, "fetch failed")
         THEN Invalid("embeddings:lmstudio.serviceNotRunning")
    ELSE IF probe.code = "ENOTFOUND" \/ MessageIncludes(probe.message, "ENOTFOUND")
         THEN Invalid("embeddings:lmstudio.hostNotFound")
    ELSE StandardHandling(probe)

(***************************************************************************)
(* createEmbeddings of the LM Studio embedder.  A text is its name and its *)
(* length in characters; the backend answers a request with one embedding  *)
(* per input text (here: the text's name) or with a failure that carries   *)
(* an HTTP status (0: a network error, which has no status).               *)
(***************************************************************************)
MaxTexts == 3

\* The limits imported from ../constants, on the model's scale of lengths.
MAX_ITEM_TOKENS == 2
MAX_BATCH_TOKENS == 3
MAX_RETRIES == 3
INITIAL_DELAY_MS == 500

Text(name, length) == [name |-> name, length |-> length]
Texts == {Text("a", 3), Text("b", 8), Text("c", 9)}

\* An estimate that rounds down.
ItemTokensFloor(text) == text.length \div 4

\* Math.ceil(text.length / 4)
ItemTokens(text) == (text.length + 3) \div 4

Answer(status) == [status |-> status]
AnswerOk == Answer(200)
Answers ==
    {AnswerOk, Answer(429), Answer(500), Answer(503), Answer(400), Answer(401),
     Answer(404), Answer(0)}

\* A scan that holds each item, not the batch, against the batch budget.
RECURSIVE ScanBatchPerItem(_, _, _, _, _, _)
ScanBatchPerItem(remaining, i, batch, tokens, processed, warned) ==
    IF i > Len(remaining)
    THEN [currentBatch |-> batch, processedIndices |-> processed, warned |-> warned]
    ELSE LET text == remaining[i]
             itemTokens == ItemTokens(text)
         IN IF itemTokens > MAX_ITEM_TOKENS
            THEN ScanBatchPerItem(remaining, i + 1, batch, tokens, processed \cup {i},
                                  Append(warned, text))
            ELSE IF itemTokens <= MAX_BATCH_TOKENS
                 THEN ScanBatchPerItem(remaining, i + 1, Append(batch, text),
                                       tokens + itemTokens, processed \cup {i}, warned)
                 ELSE [currentBatch |-> batch, processedIndices |-> processed,
                       warned |-> warned]

\* Lines 57-76: one run of the for loop over remainingTexts from index i on.
RECURSIVE ScanBatch(_, _, _, _, _, _)
ScanBatch(remaining, i, batch, tokens, processed, warned) ==
    IF i > Len(remaining)
    THEN [currentBatch |-> batch, processedIndices |-> processed, warned |-> warned]
    ELSE LET text == remaining[i]
             itemTokens == ItemTokens(text)
         IN IF itemTokens > MAX_ITEM_TOKENS
            THEN ScanBatch(remaining, i + 1, batch, tokens, processed \cup {i},
                           Append(warned, text))
            ELSE IF tokens + itemTokens <= MAX_BATCH_TOKENS
                 THEN ScanBatch(remaining, i + 1, Append(batch, text), tokens + itemTokens,
                                processed \cup {i}, warned)
                 ELSE [currentBatch |-> batch, processedIndices |-> processed,
                       warned |-> warned]

\* A splice that removes nothing.
RemoveProcessedNone(remaining, processed, i) == remaining

\* Lines 79-81: splice the processed indices out of remainingTexts.
RECURSIVE RemoveProcessed(_, _, _)
RemoveProcessed(remaining, processed, i) ==
    IF i > Len(remaining) THEN <<>>
    ELSE (IF i \in processed THEN <<>> ELSE <<remaining[i]>>)
             \o RemoveProcessed(remaining, processed, i + 1)

\* response.data.map((item) => item.embedding)
BatchEmbeddings(batch) == [i \in 1..Len(batch) |-> batch[i].name]

\* A retry loop that takes every failure for a rate limit.
IsRateLimitErrorAny(error) == TRUE

\* error?.status === 429
IsRateLimitError(error) == error.status = 429

\* An attempt cap that stops one attempt early.
HasMoreAttemptsOneLess(attempts) == attempts < MAX_RETRIES - 2

\* A retry loop that never has an attempt left.
HasMoreAttemptsNever(attempts) == FALSE

\* attempts < MAX_RETRIES - 1
HasMoreAttempts(attempts) == attempts < MAX_RETRIES - 1

\* Line 113: the condition of the for loop.
WithinRetries(attempts) == attempts < MAX_RETRIES

\* Line 142, wrapped by lines 90-95: the error after the for loop.
RetriesExhausted == [cause |-> -2, wrapped |-> TRUE]

\* INITIAL_DELAY_MS * Math.pow(2, attempts)
DelayMs(attempts) == INITIAL_DELAY_MS * (2 ^ attempts)

\* Lines 90-95: createEmbeddings throws a new Error whose message carries the
\* message of what the retry loop threw (here: the status of the cause).
BatchError(error) == [cause |-> error.status, wrapped |-> TRUE]

\* A catch block that logs the failure of a batch and goes on with the next.
AfterBatchFailureSkipped(call, error) ==
    [call EXCEPT !.error = BatchError(error), !.pc = "loop"]

\* Lines 90-95: the failure of a batch ends the call with an error.
AfterBatchFailure(call, error) ==
    [call EXCEPT !.error = BatchError(error), !.pc = "threw"]

(***************************************************************************)
(* SpecEmbed: one caller of the embedder; the backend answers each request *)
(* as it likes.                                                            *)
(***************************************************************************)
InitEmbed ==
    /\ embedder = NoEmbedCall /\ query = NoQuery
    /\ IgnoreIdle /\ StoreIdle /\ IndexIdle

\* createEmbeddings(texts) is called.
EmbedCreate ==
    /\ embedder.pc = "idle"
    /\ \E texts \in SeqsUpTo(Texts, MaxTexts) :
           embedder' = [EmbedCall("loop") EXCEPT !.texts = texts, !.remaining = texts]
    /\ UNCHANGED <<ignoreVars, storeVars, indexVars, query>>

\* One turn of the while loop up to the request, or the return after it.
EmbedNextBatch ==
    /\ embedder.pc = "loop"
    /\ IF embedder.remaining = <<>>
       THEN embedder' = [embedder EXCEPT !.pc = "returned"]
       ELSE LET scan == ScanBatch(embedder.remaining, 1, <<>>, 0, {}, <<>>)
            IN embedder' =
                   [embedder EXCEPT
                       !.remaining = RemoveProcessed(embedder.remaining,
                                                     scan.processedIndices, 1),
                       !.warned = embedder.warned \o scan.warned,
                       !.currentBatch = scan.currentBatch,
                       !.attempts = 0, !.answers = <<>>, !.delays = <<>>,
                       !.pc = IF scan.currentBatch = <<>> THEN "loop" ELSE "request"]
    /\ UNCHANGED <<ignoreVars, storeVars, indexVars, query>>

\* Lines 113-139: one request of _embedBatchWithRetries and its answer.
EmbedRequest ==
    /\ embedder.pc = "request"
    /\ \E answer \in Answers :
           LET asked == [embedder EXCEPT
                            !.answers = Append(embedder.answers, answer),
                            !.sent = embedder.sent \cup Range(embedder.currentBatch)]
           IN embedder' =
                  IF answer = AnswerOk
                  THEN [asked EXCEPT
                           !.allEmbeddings = embedder.allEmbeddings
                                                 \o BatchEmbeddings(embedder.currentBatch),
                           !.pc = "loop"]
                  ELSE IF IsRateLimitError(answer) /\ HasMoreAttempts(embedder.attempts)
                       THEN [asked EXCEPT
                                !.delays = Append(embedder.delays, DelayMs(embedder.attempts)),
                                !.pc = "backoff"]
                       ELSE AfterBatchFailure(asked, answer)
    /\ UNCHANGED <<ignoreVars, storeVars, indexVars, query>>

\* The backoff delay has passed: `continue` goes to the head of the for loop
\* (line 113), which lets the next attempt run or falls to line 142.
EmbedBackoffDone ==
    /\ embedder.pc = "backoff"
    /\ embedder' =
           IF WithinRetries(embedder.attempts + 1)
           THEN [embedder EXCEPT !.attempts = embedder.attempts + 1, !.pc = "request"]
           ELSE [embedder EXCEPT !.attempts = embedder.attempts + 1,
                                 !.error = RetriesExhausted, !.pc = "threw"]
    /\ UNCHANGED <<ignoreVars, storeVars, indexVars, query>>

\* validateConfiguration() is called, and the backend answers the probe.
EmbedValidate ==
    /\ embedder.pc = "idle"
    /\ \E probe \in ProbeOutcomes :
           embedder' = [EmbedCall("validated") EXCEPT
                           !.probe = probe, !.result = validateConfiguration(probe)]
    /\ UNCHANGED <<ignoreVars, storeVars, indexVars, query>>

\* The caller takes the result (or the error) of its call.
EmbedDone ==
    /\ embedder.pc \in {"returned", "threw", "validated"}
    /\ embedder' = NoEmbedCall
    /\ UNCHANGED <<ignoreVars, storeVars, indexVars, query>>

NextEmbed ==
    \/ EmbedCreate \/ EmbedNextBatch \/ EmbedRequest \/ EmbedBackoffDone
    \/ EmbedValidate \/ EmbedDone

SpecEmbed == InitEmbed /\ [][NextEmbed]_vars

\* The embedder whose awaits all resume: the loop goes on, the backend
\* answers each request and each backoff timer fires.
SpecEmbedFair ==
    /\ SpecEmbed
    /\ WF_vars(EmbedNextBatch) /\ WF_vars(EmbedRequest) /\ WF_vars(EmbedBackoffDone)

(***************************************************************************)
(* The unified ignore controller (UnifiedIgnoreController).  It reads the   *)
(* .rooignore of its directory cwd and, as the fallback, every .gitignore  *)
(* from cwd upward; here gitFile holds the .gitignore of cwd and the one   *)
(* of the directory above it.                                              *)
(***************************************************************************)
NewUnifiedController ==
    [ignoreInstance |-> <<>>, rooIgnoreContent |-> Undefined,
     gitIgnoreContent |-> Undefined, hasRooIgnore |-> FALSE]

\* `!content` of a content field: undefined and the empty string are falsy.
Falsy(content) == content = Undefined \/ content = <<>>

\* The .gitignore files the controller may find above cwd.
ParentGitIgnoreFiles == {AbsentFile, UnreadableFile, ReadableFile(<<DirPattern("vendor")>>)}
GitIgnoreFiles ==
    {[parent |-> f, cwd |-> g] : f \in ParentGitIgnoreFiles, g \in FileStates(GitIgnoreLines)}

\* findGitignoreFiles: the .gitignore files that exist, the outermost first.
IsFound(found) == found.file.exists
findGitignoreFiles(git) ==
    SelectSeq(<<[dir |-> "parent", file |-> git.parent], [dir |-> "cwd", file |-> git.cwd]>>,
              IsFound)

\* Lines 117-132: the files are read in turn; a file that cannot be read
\* is skipped with a warning.
RECURSIVE ReadGitIgnoreFiles(_, _, _, _)
ReadGitIgnoreFiles(c, files, hasGitIgnoreContent, combinedGitIgnoreContent) ==
    IF files = <<>>
    THEN [c |-> c, hasGitIgnoreContent |-> hasGitIgnoreContent,
          combinedGitIgnoreContent |-> combinedGitIgnoreContent]
    ELSE LET found == Head(files)
             content == found.file.content
         IN IF found.file.readable /\ Trim(content) # <<>>
            THEN ReadGitIgnoreFiles(
                     [c EXCEPT !.ignoreInstance = Add(c.ignoreInstance, content),
                               !.gitIgnoreContent =
                                   IF found.dir = "cwd" THEN content ELSE c.gitIgnoreContent],
                     Tail(files), TRUE, combinedGitIgnoreContent \o content)
            ELSE ReadGitIgnoreFiles(c, Tail(files), hasGitIgnoreContent,
                                    combinedGitIgnoreContent)

\* loadGitIgnorePatterns of the unified controller.
unifiedLoadGitIgnorePatterns(c, git) ==
    LET read == ReadGitIgnoreFiles(c, findGitignoreFiles(git), FALSE, <<>>)
        c1 == IF read.hasGitIgnoreContent /\ Falsy(read.c.gitIgnoreContent)
              THEN [read.c EXCEPT !.gitIgnoreContent = Trim(read.combinedGitIgnoreContent)]
              ELSE read.c
    IN IF read.hasGitIgnoreContent
       THEN [c1 EXCEPT !.ignoreInstance = Add(c1.ignoreInstance, <<NamePattern(".gitignore")>>)]
       ELSE c1

\* loadIgnorePatterns of the unified controller, run to completion against
\* the files roo and git.
unifiedLoadIgnorePatterns(c, roo, git) ==
    LET c0 == [c EXCEPT !.ignoreInstance = <<>>, !.hasRooIgnore = roo.exists]
    IN  IF roo.exists
        THEN IF ~roo.readable
             THEN unifiedLoadGitIgnorePatterns(
                      [c0 EXCEPT !.rooIgnoreContent = Undefined, !.hasRooIgnore = FALSE], git)
             ELSE IF Trim(roo.content) # <<>>
                  THEN [c0 EXCEPT !.rooIgnoreContent = roo.content,
                                  !.ignoreInstance =
                                      Add(Add(c0.ignoreInstance, roo.content),
                                          <<NamePattern(".rooignore")>>)]
                  ELSE unifiedLoadGitIgnorePatterns(
                           [c0 EXCEPT !.rooIgnoreContent = roo.content], git)
        ELSE unifiedLoadGitIgnorePatterns([c0 EXCEPT !.rooIgnoreContent = Undefined], git)

\* validateAccess of the unified controller: the ignore library throws for
\* a path that leaves cwd, and the catch block allows it.
unifiedValidateAccess(c, filePath) ==
    LET relativePath == Relative(filePath)
    IN IF relativePath.outside THEN TRUE ELSE ~Ignores(c.ignoreInstance, relativePath)

\* A terminal command: its first word, and its further words.  A word is a
\* flag ("-n", "/i"), a parameter name (it holds ":") or anything else, and
\* then it is taken for a path.
Word(kind, filePath) == [kind |-> kind, filePath |-> filePath]
Command(base, args) == [base |-> base, args |-> args]
Commands ==
    {Command(base, args) :
        base \in {"cat", "CAT", "echo"},
        args \in {<<>>,
                  <<Word("path", Spelled("plain", SecretFile))>>,
                  <<Word("flag", Spelled("plain", SecretFile)),
                    Word("path", Spelled("dotted", DepFile))>>,
                  <<Word("param", Spelled("plain", DepFile)),
                    Word("path", Spelled("plain", SrcFile))>>,
                  <<Word("path", Spelled("plain", OutsideFile)),
                    Word("path", Spelled("plain", DepFile))>>}}

\* String.prototype.toLowerCase on the first word of a command.
ToLowerCase(word) == IF word = "CAT" THEN "cat" ELSE word

fileReadingCommands ==
    {"cat", "less", "more", "head", "tail", "grep", "awk", "sed",
     "get-content", "gc", "type", "select-string", "sls"}

\* Lines 234-248: the first word taken for a path that may not be read.
RECURSIVE FirstBlockedWord(_, _)
FirstBlockedWord(c, args) ==
    IF args = <<>> THEN <<>>
    ELSE IF Head(args).kind = "path" /\ ~unifiedValidateAccess(c, Head(args).filePath)
         THEN <<Head(args)>>
         ELSE FirstBlockedWord(c, Tail(args))

\* validateCommand: the word that is refused, or no word (undefined).
unifiedValidateCommand(c, command) ==
    IF Falsy(c.rooIgnoreContent) /\ Falsy(c.gitIgnoreContent) THEN <<>>
    ELSE IF ToLowerCase(command.base) \in fileReadingCommands
         THEN FirstBlockedWord(c, command.args)
         ELSE <<>>

isUsingRooIgnore(c) ==
    c.hasRooIgnore /\ c.rooIgnoreContent # Undefined /\ Trim(c.rooIgnoreContent) # <<>>

\* getInstructions: the text for the file in use, or undefined.
NoInstructions == [about |-> "undefined", content |-> <<>>]
unifiedGetInstructions(c) ==
    IF isUsingRooIgnore(c)
    THEN [about |-> "# .rooignore",
          content |-> c.rooIgnoreContent \o <<NamePattern(".rooignore")>>]
    ELSE IF ~Falsy(c.gitIgnoreContent)
         THEN [about |-> "# .gitignore (fallback)", content |-> c.gitIgnoreContent]
         ELSE NoInstructions

(***************************************************************************)
(* SpecUnified: a unified controller that was constructed and initialized, *)
(* answers its callers, and loads the patterns again whenever the          *)
(* .rooignore or the .gitignore of cwd changes.                            *)
(***************************************************************************)
InitUnified ==
    /\ rooFile \in FileStates(RooIgnoreLines) /\ gitFile \in GitIgnoreFiles
    /\ controller = unifiedLoadIgnorePatterns(NewUnifiedController, rooFile, gitFile)
    /\ resolved = TRUE
    /\ StoreIdle /\ IndexIdle /\ ProbeIdle

\* The .rooignore of cwd is written, created or deleted.
UnifiedChangeRooIgnore ==
    /\ query = NoQuery
    /\ \E f \in FileStates(RooIgnoreLines) \ {rooFile} : rooFile' = f
    /\ resolved' = FALSE
    /\ UNCHANGED <<gitFile, controller, storeVars, indexVars, probeVars>>

\* The .gitignore of cwd is written, created or deleted.
UnifiedChangeGitIgnore ==
    /\ query = NoQuery
    /\ \E f \in FileStates(GitIgnoreLines) \ {gitFile.cwd} :
           gitFile' = [gitFile EXCEPT !.cwd = f]
    /\ resolved' = FALSE
    /\ UNCHANGED <<rooFile, controller, storeVars, indexVars, probeVars>>

\* Lines 52-62: the watcher's handler loads the patterns again.
UnifiedReload ==
    /\ query = NoQuery
    /\ resolved = FALSE
    /\ controller' = unifiedLoadIgnorePatterns(controller, rooFile, gitFile)
    /\ resolved' = TRUE
    /\ UNCHANGED <<rooFile, gitFile, storeVars, indexVars, probeVars>>

\* validateAccess(filePath) is called.
UnifiedValidateAccess ==
    /\ query = NoQuery
    /\ \E filePath \in FilePaths :
           query' = [Query("validateAccess") EXCEPT
                        !.paths = <<filePath>>,
                        !.allowed = unifiedValidateAccess(controller, filePath)]
    /\ UNCHANGED <<ignoreVars, storeVars, indexVars, embedder>>

\* validateCommand(command) is called.
UnifiedValidateCommand ==
    /\ query = NoQuery
    /\ \E command \in Commands :
           query' = [Query("validateCommand") EXCEPT
                        !.paths = <<command>>,
                        !.result = unifiedValidateCommand(controller, command)]
    /\ UNCHANGED <<ignoreVars, storeVars, indexVars, embedder>>

\* getInstructions() is called.
UnifiedGetInstructions ==
    /\ query = NoQuery
    /\ query' = [Query("getInstructions") EXCEPT
                    !.result = <<unifiedGetInstructions(controller)>>]
    /\ UNCHANGED <<ignoreVars, storeVars, indexVars, embedder>>

NextUnified ==
    \/ UnifiedChangeRooIgnore \/ UnifiedChangeGitIgnore \/ UnifiedReload
    \/ UnifiedValidateAccess \/ UnifiedValidateCommand \/ UnifiedGetInstructions
    \/ FilterReturn

SpecUnified == InitUnified /\ [][NextUnified]_vars

(***************************************************************************)
(* createEmbeddings of the FastEmbed embedder.  A text is its name, its    *)
(* length and whether it starts with the model's query prefix; the local   *)
(* model answers a doEmbed call with one embedding per text (here: the     *)
(* text), with an empty result, or it throws.                              *)
(***************************************************************************)
FastText(name, length, prefixed) == [name |-> name, length |-> length, prefixed |-> prefixed]
FastTexts ==
    {FastText("a", 3, FALSE), FastText("b", 8, FALSE), FastText("c", 9, FALSE),
     FastText("p", 8, TRUE)}

\* this.availableModels, and a model name that is not among them.
AvailableModels == {"bge-small-en-v1.5", "bge-base-en-v1.5"}
ModelNames == AvailableModels \cup {"bge-large-en-v1.5"}

\* The lengths of the query prefix a model may ask for (0: none).
QueryPrefixLengths == {0, 4}

\* fastEmbedModel.maxEmbeddingsPerCall || 256, on the model's scale.
MaxBatchSize == 2

\* Lines 59-80: the prefix is put before a text unless the text has it or
\* would grow beyond the item limit with it; warned says that a warning
\* was logged.
AddQueryPrefix(text, prefixLength) ==
    IF prefixLength = 0 \/ text.prefixed THEN [text |-> text, warned |-> FALSE]
    ELSE LET prefixedText == FastText(text.name, text.length + prefixLength, TRUE)
         IN IF ItemTokens(prefixedText) > MAX_ITEM_TOKENS
            THEN [text |-> text, warned |-> TRUE]
            ELSE [text |-> prefixedText, warned |-> FALSE]

ProcessedTexts(texts, prefixLength) ==
    [i \in 1..Len(texts) |-> AddQueryPrefix(texts[i], prefixLength).text]

FitsItemLimit(text) == ItemTokens(text) <= MAX_ITEM_TOKENS
ExceedsItemLimit(text) == ~FitsItemLimit(text)

\* Lines 107-121: doEmbed is called batch by batch; the call number failAt
\* (0: none) answers as failKind says.
RECURSIVE EmbedInBatches(_, _, _, _, _)
EmbedInBatches(validTexts, failAt, failKind, allEmbeddings, calls) ==
    IF validTexts = <<>>
    THEN [threw |-> FALSE, error |-> "", embeddings |-> allEmbeddings, calls |-> calls]
    ELSE LET size == Min(MaxBatchSize, Len(validTexts))
             batch == SubSeq(validTexts, 1, size)
         IN IF calls + 1 = failAt
            THEN [threw |-> TRUE,
                  error |-> IF failKind = "empty"
                            THEN "embeddings:fastembed.invalidResponseFormat"
                            ELSE "doEmbed failed",
                  embeddings |-> <<>>, calls |-> calls + 1]
            ELSE EmbedInBatches(SubSeq(validTexts, size + 1, Len(validTexts)), failAt,
                                failKind, allEmbeddings \o batch, calls + 1)

\* Lines 133-145: the catch block reports every error of the try block as
\* embeddingFailed, with the message of the error it caught.
EmbeddingFailed(out) ==
    IF out.threw
    THEN [out EXCEPT !.error = <<"embeddings:fastembed.embeddingFailed", out.error>>]
    ELSE [out EXCEPT !.error = <<>>]

\* createEmbeddings(texts, model) of the FastEmbed embedder.
fastEmbedCreateEmbeddings(texts, model, prefixLength, failAt, failKind) ==
    IF model \notin AvailableModels
    THEN [threw |-> TRUE, error |-> <<"embeddings:fastembed.modelNotSupported">>,
          embeddings |-> <<>>, calls |-> 0]
    ELSE LET validTexts == SelectSeq(ProcessedTexts(texts, prefixLength), FitsItemLimit)
         IN IF validTexts = <<>>
            THEN EmbeddingFailed([threw |-> TRUE, error |-> "embeddings:fastembed.noValidTexts",
                                  embeddings |-> <<>>, calls |-> 0])
            ELSE EmbeddingFailed(EmbedInBatches(validTexts, failAt, failKind, <<>>, 0))

\* The warnings createEmbeddings logs: for a prefix that was left off, and
\* for a text that was filtered out.
FastEmbedWarnings(texts, prefixLength) ==
    [prefix |-> {i \in 1..Len(texts) : AddQueryPrefix(texts[i], prefixLength).warned},
     skipped |-> {i \in 1..Len(texts) :
                     ExceedsItemLimit(ProcessedTexts(texts, prefixLength)[i])}]

(***************************************************************************)
(* SpecFastEmbed: one caller of the FastEmbed embedder.                    *)
(***************************************************************************)
\* createEmbeddings(texts, model) is called and runs to its end.
FastEmbedCreate ==
    /\ embedder = NoEmbedCall
    /\ \E texts \in SeqsUpTo(FastTexts, MaxTexts), model \in ModelNames,
          prefixLength \in QueryPrefixLengths, failAt \in 0..2,
          failKind \in {"empty", "throws"} :
           LET out == fastEmbedCreateEmbeddings(texts, model, prefixLength, failAt, failKind)
           IN embedder' =
                  [pc |-> IF out.threw THEN "fastThrew" ELSE "fastReturned",
                   texts |-> texts, model |-> model, prefixLength |-> prefixLength,
                   failAt |-> failAt, threw |-> out.threw, error |-> out.error,
                   embeddings |-> out.embeddings, calls |-> out.calls,
                   warned |-> IF model \in AvailableModels
                              THEN FastEmbedWarnings(texts, prefixLength)
                              ELSE [prefix |-> {}, skipped |-> {}]]
    /\ UNCHANGED <<ignoreVars, storeVars, indexVars, query>>

\* The caller takes the result (or the error) of its call.
FastEmbedDone ==
    /\ embedder.pc \in {"fastReturned", "fastThrew"}
    /\ embedder' = NoEmbedCall
    /\ UNCHANGED <<ignoreVars, storeVars, indexVars, query>>

NextFastEmbed == FastEmbedCreate \/ FastEmbedDone

SpecFastEmbed == InitEmbed /\ [][NextFastEmbed]_vars

\* SpecEmbedders: a caller that uses either embedder, one call at a time.
SpecEmbedders == InitEmbed /\ [][NextEmbed \/ NextFastEmbed]_vars

(***************************************************************************)
(* The index manager.  It owns the indexing state and the generation; an   *)
(* operation in flight (a validation, a recreate, a pass) carries the      *)
(* generation it was started under, and each of its steps runs between two *)
(* awaits.                                                                 *)
(***************************************************************************)
MaxGeneration == 1
MaxVersion == 1

\* The chunks the scanner cuts a file into: the first version of the source
\* file is the long one.
ChunkCount(path, v) == IF path = SrcFile /\ v = 1 THEN 2 ELSE 1
ChunksOf(path, v) == {Point(path, n, v) : n \in 1..ChunkCount(path, v)}

Op(kind, gen) ==
    [kind |-> kind, gen |-> gen, clear |-> FALSE, probe |-> ProbeOk,
     step |-> "select", path |-> SrcFile, version |-> 0]

\* A pass works through the job queue (pending); a full pass starts with
\* every known path in it.
FullPass(gen, clear) == [Op("pass", gen) EXCEPT !.clear = clear]

\* The journal keeps the last thing a pass decided about a file: to embed
\* it, to leave it unchanged, to drop its cache entry, or to discard the step
\* of a superseded operation.
Step(kind, o) ==
    [kind |-> kind, gen |-> o.gen, step |-> o.step, path |-> o.path,
     version |-> o.version, cached |-> IF kind \in {"embed", "unchanged"} THEN cache[o.path] ELSE 0]

\* A generation check that lets every operation through.
IsCurrentUnchecked(o) == TRUE

\* The generation check of an operation's step.
IsCurrent(o) == o.gen = generation

\* A recreate that keeps the generation.
NextGenerationKept(g) == g

NextGeneration(g) == g + 1

\* A recreate that builds a new ignore controller each time and disposes
\* the one it held.
recreateServicesFresh(sv) ==
    [controller |-> sv.instances + 1, instances |-> sv.instances + 1,
     watching |-> TRUE, handed |-> sv.instances + 1]

\* _recreateServices: the manager creates its ignore controller (with its
\* watchers) when it holds none, keeps the one it holds, and hands it to the
\* service factory.
recreateServices(sv) ==
    IF sv.controller = 0
    THEN [controller |-> sv.instances + 1, instances |-> sv.instances + 1,
          watching |-> TRUE, handed |-> sv.instances + 1]
    ELSE [sv EXCEPT !.handed = sv.controller]

WatcherActive == systemState \in {"Indexing", "Indexed"}

\* A scan that takes every existing, allowed file for changed.
NeedsIndexingAlways(path) == TRUE

\* ChangeCache: a file is re-embedded only when its hash is not the cached one.
NeedsIndexing(path) == cache[path] # workspace[path]

\* A path the pass has to remove from the index: the file is gone or ignored.
ToRemove(path) == workspace[path] = 0 \/ ~validateAccess(controller, path)

HasRecords(path) ==
    cache[path] # 0 \/ \E x \in collection.points : x.filePath = path

InitIndex ==
    /\ IndexIdle /\ StoreIdle /\ ProbeIdle
    /\ rooFile = AbsentFile /\ gitFile = AbsentFile
    /\ controller = NewController /\ resolved = FALSE

\* ---- the environment: files and ignore files change ----
\* A file is created or saved with new content; the dependency file has one
\* content only.
EditFile ==
    \E path \in IndexPaths, v \in 1..MaxVersion :
        /\ workspace[path] # v
        /\ (path = DepFile => v = 1)
        /\ workspace' = [workspace EXCEPT ![path] = v]
        /\ pending' = IF WatcherActive THEN pending \cup {path} ELSE pending
        /\ journal' = NoStep
        /\ UNCHANGED <<systemState, errorMessage, generation, cache, ops, ignoreVars,
                       storeVars, services, probeVars>>

DeleteFile ==
    \E path \in IndexPaths :
        /\ workspace[path] # 0
        /\ workspace' = [workspace EXCEPT ![path] = 0]
        /\ pending' = IF WatcherActive THEN pending \cup {path} ELSE pending
        /\ journal' = NoStep
        /\ UNCHANGED <<systemState, errorMessage, generation, cache, ops, ignoreVars,
                       storeVars, services, probeVars>>

\* The .rooignore file is written or removed; the controller's watcher
\* resolves the rules again, and every known path is due for a look.
IgnoreFileEvent ==
    /\ rooFile' = IF rooFile.exists THEN AbsentFile ELSE ReadableFile(<<DirPattern("secret")>>)
    /\ controller' = loadIgnorePatterns(controller, rooFile', gitFile)
    /\ resolved' = TRUE
    /\ pending' = IF WatcherActive THEN IndexPaths ELSE pending
    /\ journal' = NoStep
    /\ UNCHANGED <<gitFile, systemState, errorMessage, generation, workspace, cache, ops,
                   storeVars, services, probeVars>>

\* ---- Standby -> Indexing | Error ----
StartIndexing ==
    \E probe \in StartProbes :
        /\ systemState \in {"Standby", "Error"}
        /\ \A o \in ops : ~IsCurrent(o)
        /\ systemState' = "Standby"
        /\ errorMessage' = ""
        /\ ops' = ops \cup {[Op("validate", generation) EXCEPT !.probe = probe]}
        /\ journal' = NoStep
        /\ UNCHANGED <<generation, workspace, cache, pending, ignoreVars, storeVars, services,
                       probeVars>>

ValidationDone ==
    \E o \in ops :
        /\ o.kind = "validate" /\ IsCurrent(o)
        /\ LET result == validateConfiguration(o.probe)
           IN IF result.valid
              THEN /\ systemState' = "Indexing"
                   /\ errorMessage' = ""
                   /\ controller' = loadIgnorePatterns(controller, rooFile, gitFile)
                   /\ resolved' = TRUE
                   /\ collection' = initialize(collection, FALSE, FALSE).col
                   /\ ops' = (ops \ {o}) \cup {FullPass(generation, FALSE)}
                   /\ pending' = IndexPaths
                   /\ services' = recreateServices(services)
              ELSE /\ systemState' = "Error"
                   /\ errorMessage' = result.error
                   /\ ops' = ops \ {o}
                   /\ UNCHANGED <<controller, resolved, collection, pending, services>>
        /\ journal' = NoStep
        /\ UNCHANGED <<generation, workspace, cache, rooFile, gitFile, lastCall, probeVars>>

\* ---- recreate: a configuration change or a clear-index request ----
RequestRecreate ==
    \E clear \in BOOLEAN :
        /\ systemState \in {"Indexing", "Indexed"}
        /\ generation < MaxGeneration
        \* one superseded operation at a time is still to resume
        /\ \A o \in ops : IsCurrent(o)
        /\ generation' = NextGeneration(generation)
        /\ systemState' = "Indexing"
        /\ ops' = ops \cup {[Op("recreate", generation') EXCEPT !.clear = clear]}
        /\ journal' = NoStep
        /\ UNCHANGED <<errorMessage, workspace, cache, pending, ignoreVars, storeVars,
                       services, probeVars>>

RecreateServices ==
    \E o \in ops, clearFails \in BOOLEAN :
        /\ o.kind = "recreate" /\ IsCurrent(o)
        /\ (clearFails => o.clear)
        /\ services' = recreateServices(services)
        /\ controller' = loadIgnorePatterns(controller, rooFile, gitFile)
        /\ resolved' = TRUE
        /\ pending' = IndexPaths
        /\ IF o.clear
           THEN LET out == clearCollection(collection, clearFails)
                IN /\ collection' = out.col
                   /\ IF out.threw
                      THEN /\ systemState' = "Error"
                           /\ errorMessage' = "connectivity"
                           /\ ops' = ops \ {o}
                           /\ UNCHANGED cache
                      ELSE /\ cache' = [path \in IndexPaths |-> 0]
                           /\ ops' = (ops \ {o}) \cup {FullPass(o.gen, TRUE)}
                           /\ UNCHANGED <<systemState, errorMessage>>
           ELSE /\ ops' = (ops \ {o}) \cup {FullPass(o.gen, FALSE)}
                /\ UNCHANGED <<collection, cache, systemState, errorMessage>>
        /\ journal' = NoStep
        /\ UNCHANGED <<generation, workspace, rooFile, gitFile, lastCall, probeVars>>

\* ---- Indexed -> Indexing: the watcher's coalesced job ----
StartIncremental ==
    /\ systemState = "Indexed" /\ pending # {}
    /\ \A o \in ops : ~IsCurrent(o)
    /\ systemState' = "Indexing"
    /\ ops' = ops \cup {Op("pass", generation)}
    /\ journal' = NoStep
    /\ UNCHANGED <<errorMessage, generation, workspace, cache, pending, ignoreVars, storeVars,
                   services, probeVars>>

\* ---- the steps of a pass ----
\* An operation of an older generation resumes: its result is dropped.
DiscardStale ==
    \E o \in ops :
        /\ ~IsCurrent(o)
        /\ ops' = ops \ {o}
        /\ journal' = Step("discard", o)
        /\ UNCHANGED <<systemState, errorMessage, generation, workspace, cache, pending,
                       ignoreVars, storeVars, services, probeVars>>

Advance(o, step, path, v) ==
    (ops \ {o}) \cup {[o EXCEPT !.step = step, !.path = path, !.version = v]}
FileDone(o) ==
    (ops \ {o}) \cup {[o EXCEPT !.step = "select", !.path = SrcFile, !.version = 0]}

\* The scanner takes a file of the job: it is removed from the index, left
\* alone, or read, hashed and sent to the embedder.
PassSelect ==
    \E o \in ops, path \in IndexPaths :
        /\ o.kind = "pass" /\ IsCurrent(o) /\ o.step = "select" /\ path \in pending
        /\ pending' = pending \ {path}
        /\ IF ToRemove(path)
           THEN /\ ops' = IF HasRecords(path)
                          THEN Advance(o, "delete", path, 0)
                          ELSE FileDone([o EXCEPT !.path = path])
                /\ journal' = NoStep
           ELSE IF NeedsIndexing(path)
                THEN /\ ops' = Advance(o, "embed", path, workspace[path])
                     /\ journal' = Step("embed", [o EXCEPT !.path = path,
                                                           !.version = workspace[path]])
                ELSE /\ ops' = FileDone([o EXCEPT !.path = path])
                     /\ journal' = Step("unchanged", [o EXCEPT !.path = path,
                                                               !.version = workspace[path]])
        /\ UNCHANGED <<systemState, errorMessage, generation, workspace, cache,
                       ignoreVars, storeVars, services, probeVars>>

\* The embedder answers: with vectors, with an error for this batch, or
\* with a loss of connectivity.
PassEmbedded ==
    \E o \in ops, answer \in {"vectors", "batchError", "unreachable"} :
        /\ o.kind = "pass" /\ IsCurrent(o) /\ o.step = "embed"
        /\ CASE answer = "vectors" ->
                   /\ ops' = Advance(o, "upsert", o.path, o.version)
                   /\ UNCHANGED <<systemState, errorMessage>>
             [] answer = "batchError" ->
                   /\ ops' = FileDone(o)
                   /\ UNCHANGED <<systemState, errorMessage>>
             [] OTHER ->
                   /\ ops' = ops \ {o}
                   /\ systemState' = "Error"
                   /\ errorMessage' = "connectivity"
        /\ journal' = NoStep
        /\ UNCHANGED <<generation, workspace, cache, pending, ignoreVars, storeVars, services,
                       probeVars>>

\* The file's old chunks are deleted and its new chunks upserted.
PassUpsert ==
    \E o \in ops, deleteOk \in {0, DeleteTopK}, upsertFails \in BOOLEAN :
        /\ o.kind = "pass" /\ IsCurrent(o) /\ o.step = "upsert"
        /\ (upsertFails => deleteOk # 0)
        /\ LET deleted == deletePointsByFilePath(collection, o.path, deleteOk)
               out == IF deleted.threw THEN deleted
                      ELSE upsertPoints(deleted.col, ChunksOf(o.path, o.version), upsertFails)
           IN /\ collection' = out.col
              /\ IF out.threw
                 THEN /\ ops' = ops \ {o}
                      /\ systemState' = "Error"
                      /\ errorMessage' = "connectivity"
                 ELSE /\ ops' = Advance(o, "cache", o.path, o.version)
                      /\ UNCHANGED <<systemState, errorMessage>>
        /\ journal' = NoStep
        /\ UNCHANGED <<generation, workspace, cache, pending, ignoreVars, lastCall, services,
                       probeVars>>

PassCachePut ==
    \E o \in ops :
        /\ o.kind = "pass" /\ IsCurrent(o) /\ o.step = "cache"
        /\ cache' = [cache EXCEPT ![o.path] = o.version]
        /\ ops' = FileDone(o)
        /\ journal' = NoStep
        /\ UNCHANGED <<systemState, errorMessage, generation, workspace, pending,
                       ignoreVars, storeVars, services, probeVars>>

PassDelete ==
    \E o \in ops, deleteOk \in {0, DeleteTopK} :
        /\ o.kind = "pass" /\ IsCurrent(o) /\ o.step = "delete"
        /\ LET out == deletePointsByFilePath(collection, o.path, deleteOk)
           IN /\ collection' = out.col
              /\ IF out.threw
                 THEN /\ ops' = ops \ {o}
                      /\ systemState' = "Error"
                      /\ errorMessage' = "connectivity"
                 ELSE /\ ops' = Advance(o, "uncache", o.path, 0)
                      /\ UNCHANGED <<systemState, errorMessage>>
        /\ journal' = NoStep
        /\ UNCHANGED <<generation, workspace, cache, pending, ignoreVars, lastCall, services,
                       probeVars>>

PassCacheRemove ==
    \E o \in ops :
        /\ o.kind = "pass" /\ IsCurrent(o) /\ o.step = "uncache"
        /\ cache' = [cache EXCEPT ![o.path] = 0]
        /\ ops' = FileDone(o)
        /\ journal' = Step("cacheRemove", o)
        /\ UNCHANGED <<systemState, errorMessage, generation, workspace, pending,
                       ignoreVars, storeVars, services, probeVars>>

\* Indexing -> Indexed
PassFinish ==
    \E o \in ops :
        /\ o.kind = "pass" /\ IsCurrent(o) /\ o.step = "select" /\ pending = {}
        /\ ops' = ops \ {o}
        /\ systemState' = "Indexed"
        /\ UNCHANGED <<errorMessage, generation, workspace, cache, pending, journal,
                       ignoreVars, storeVars, services, probeVars>>

Next ==
    \/ EditFile \/ DeleteFile \/ IgnoreFileEvent
    \/ StartIndexing \/ ValidationDone
    \/ RequestRecreate \/ RecreateServices \/ StartIncremental
    \/ DiscardStale \/ PassSelect \/ PassEmbedded \/ PassUpsert \/ PassCachePut
    \/ PassDelete \/ PassCacheRemove \/ PassFinish

Spec == InitIndex /\ [][Next]_vars

(***************************************************************************)
(* SpecLifecycle: the index manager whose feature can also be disabled, or *)
(* whose configuration can be found incomplete, at any time.               *)
(***************************************************************************)
\* A stop request that an Error state outlasts.
StateAfterStopKeepingError(state) == IF state = "Error" THEN "Error" ELSE "Standby"

\* any state -> Standby
StateAfterStop(state) == "Standby"

\* The feature is disabled, or a required configuration field is missing or
\* invalid: the watcher stops, the work in flight is abandoned and nothing
\* is started; a configuration error is reported.
StopIndexing ==
    \E misconfigured \in BOOLEAN :
        /\ systemState' = StateAfterStop(systemState)
        /\ errorMessage' = IF misconfigured THEN "configuration" ELSE ""
        /\ ops' = {}
        /\ pending' = {}
        /\ journal' = [NoStep EXCEPT !.kind = "stop", !.step = systemState]
        /\ UNCHANGED <<generation, workspace, cache, ignoreVars, storeVars, services,
                       probeVars>>

NextLifecycle == Next \/ StopIndexing

SpecLifecycle == InitIndex /\ [][NextLifecycle]_vars

(***************************************************************************)
(* SpecWatch: the file watcher in the Indexed state.  Change events are    *)
(* collected in a buffer; when the debounce timer fires the buffer is      *)
(* flushed into one incremental job, which a single loop works through     *)
(* while the next burst collects.                                          *)
(***************************************************************************)
MaxBurst == 2

Event(type, path) == [type |-> type, path |-> path]
IgnoreEvent == Event("ignore", RooIgnoreFile)

HasIgnoreEvent(buffer) == \E i \in 1..Len(buffer) : buffer[i] = IgnoreEvent

\* A flush that makes the job of the first event only.
JobPathsFirstOnly(buffer) == {buffer[1].path} \ {RooIgnoreFile}

\* The paths of the coalesced job: the union of the paths of the burst, and
\* every known path when an ignore file changed in the burst.
JobPaths(buffer) ==
    {buffer[i].path : i \in {j \in 1..Len(buffer) : buffer[j] # IgnoreEvent}}
        \cup (IF HasIgnoreEvent(buffer) THEN IndexPaths ELSE {})

\* A flush that leaves the rules as they are.
FlushRulesKept(c, buffer, roo, git) == c

\* The rules the job is processed with: an ignore-file event of the burst
\* has the resolver rebuilt before the job is processed.
FlushRules(c, buffer, roo, git) ==
    IF HasIgnoreEvent(buffer) THEN loadIgnorePatterns(c, roo, git) ELSE c

Job(paths) == [kind |-> "job", todo |-> paths]
NoBurst ==
    [kind |-> "burst", paths |-> {}, ignore |-> FALSE, roo |-> AbsentFile,
     embedded |-> [path \in IndexPaths |-> 0], removed |-> {}, jobs |-> 0]

InitWatch ==
    /\ rooFile \in {AbsentFile, ReadableFile(<<DirPattern("secret")>>)}
    /\ gitFile = AbsentFile
    /\ controller = loadIgnorePatterns(NewController, rooFile, gitFile)
    /\ resolved = TRUE
    /\ systemState = "Indexed" /\ errorMessage = "" /\ generation = 0
    /\ workspace \in [IndexPaths -> {0, 1}]
    /\ cache = [path \in IndexPaths |-> 0]
    /\ pending = <<>> /\ ops = {} /\ journal = NoBurst
    /\ services = NoServices
    /\ StoreIdle /\ ProbeIdle

\* A source file is created, saved or deleted, and the watcher is told.
WatchFileEvent ==
    \E path \in IndexPaths, type \in {"created", "modified", "deleted"} :
        /\ Len(pending) < MaxBurst
        /\ (type = "created") = (workspace[path] = 0)
        /\ workspace' = [workspace EXCEPT ![path] = IF type = "deleted" THEN 0 ELSE 1]
        /\ pending' = Append(pending, Event(type, path))
        /\ UNCHANGED <<systemState, errorMessage, generation, cache, ops, journal, services,
                       ignoreVars, storeVars, probeVars>>

\* The .rooignore file is written or removed, and the watcher is told.
WatchIgnoreEvent ==
    /\ Len(pending) < MaxBurst
    /\ rooFile' = IF rooFile.exists THEN AbsentFile ELSE ReadableFile(<<DirPattern("secret")>>)
    /\ resolved' = FALSE
    /\ pending' = Append(pending, IgnoreEvent)
    /\ UNCHANGED <<gitFile, controller, indexVarsButPending, storeVars, probeVars>>

\* The debounce timer fires: the burst becomes one job, after the rules
\* were rebuilt if an ignore file is part of the burst.
WatchFlush ==
    /\ pending # <<>> /\ ops = {}
    /\ controller' = FlushRules(controller, pending, rooFile, gitFile)
    /\ resolved' = (resolved \/ HasIgnoreEvent(pending))
    /\ ops' = {Job(JobPaths(pending))}
    /\ journal' = [NoBurst EXCEPT
                      !.paths = {pending[i].path : i \in 1..Len(pending)} \ {RooIgnoreFile},
                      !.ignore = HasIgnoreEvent(pending),
                      !.roo = rooFile,
                      !.jobs = 1]
    /\ pending' = <<>>
    /\ UNCHANGED <<rooFile, gitFile, systemState, errorMessage, generation, workspace, cache,
                   services, storeVars, probeVars>>

\* The job's loop takes one path: the file is removed from the index when
\* it is gone or ignored, and embedded otherwise.
WatchProcess ==
    \E job \in ops, path \in IndexPaths :
        /\ path \in job.todo
        /\ ops' = {[job EXCEPT !.todo = job.todo \ {path}]}
        /\ IF ToRemove(path)
           THEN /\ journal' = [journal EXCEPT !.removed = journal.removed \cup {path}]
                /\ cache' = [cache EXCEPT ![path] = 0]
           ELSE /\ journal' = [journal EXCEPT !.embedded[path] = journal.embedded[path] + 1]
                /\ cache' = [cache EXCEPT ![path] = workspace[path]]
        /\ UNCHANGED <<systemState, errorMessage, generation, workspace, pending, services,
                       ignoreVars, storeVars, probeVars>>

\* The job is done; the watcher waits for the next flush.
WatchJobDone ==
    \E job \in ops :
        /\ job.todo = {}
        /\ ops' = {}
        /\ UNCHANGED <<systemState, errorMessage, generation, workspace, cache, pending,
                       journal, services, ignoreVars, storeVars, probeVars>>

NextWatch ==
    WatchFileEvent \/ WatchIgnoreEvent \/ WatchFlush \/ WatchProcess \/ WatchJobDone

SpecWatch == InitWatch /\ [][NextWatch]_vars

(***************************************************************************)
(* SpecRecreate: one recreate, step by step.  The manager is Indexed; a    *)
(* configuration change or a clear-index request starts the recreate, and  *)
(* each of its steps runs between two awaits.  The journal keeps the steps *)
(* that ran and the state of the file watcher.                             *)
(***************************************************************************)
\* A clear request that goes from the store straight to the scan.
RecreateStepAfterStoreOnly(step, clear) ==
    CASE step = "dispose" -> "reload"
      [] step = "reload" -> "rebuild"
      [] step = "rebuild" -> IF clear THEN "clearStore" ELSE "scan"
      [] OTHER -> "scan"

\* The order of the steps of a recreate, after the generation was bumped.
RecreateStepAfter(step, clear) ==
    CASE step = "dispose" -> "reload"
      [] step = "reload" -> "rebuild"
      [] step = "rebuild" -> IF clear THEN "clearStore" ELSE "scan"
      [] step = "clearStore" -> "clearCache"
      [] OTHER -> "scan"

RecreateLog(log, watcher) == [kind |-> "recreate", log |-> log, watcher |-> watcher]

\* The records of the files that exist and that the rules let through.
IndexedPoints(files, c) ==
    UNION {ChunksOf(path, files[path]) :
               path \in {q \in IndexPaths : files[q] # 0 /\ validateAccess(c, q)}}

InitRecreate ==
    /\ rooFile \in {AbsentFile, ReadableFile(<<DirPattern("secret")>>)}
    /\ gitFile = AbsentFile
    /\ \E loaded \in {AbsentFile, ReadableFile(<<DirPattern("secret")>>)} :
           /\ controller = loadIgnorePatterns(NewController, loaded, gitFile)
           /\ resolved = (loaded = rooFile)
    /\ systemState = "Indexed" /\ errorMessage = "" /\ generation = 0
    /\ workspace \in [IndexPaths -> {0, 1}]
    /\ cache = [path \in IndexPaths |->
                   IF validateAccess(controller, path) THEN workspace[path] ELSE 0]
    /\ collection = [exists |-> TRUE, dimension |-> VectorSize,
                     points |-> IndexedPoints(workspace, controller)]
    /\ lastCall = NoCall
    /\ pending = {} /\ ops = {}
    /\ journal = RecreateLog(<<>>, "watching")
    /\ services = recreateServices(NoServices)
    /\ ProbeIdle

Logged(step) == [journal EXCEPT !.log = Append(journal.log, step)]

\* The request: the generation is bumped before anything else.
RecreateStart ==
    \E clear \in BOOLEAN :
        /\ systemState = "Indexed" /\ ops = {}
        /\ generation < MaxGeneration
        /\ generation' = NextGeneration(generation)
        /\ systemState' = "Indexing"
        /\ ops' = {[Op("recreate", generation') EXCEPT !.clear = clear, !.step = "dispose"]}
        /\ journal' = RecreateLog(<<"bump">>, journal.watcher)
        /\ UNCHANGED <<errorMessage, workspace, cache, pending, services, ignoreVars,
                       storeVars, probeVars>>

\* The current file watcher is disposed.
RecreateDispose ==
    \E o \in ops :
        /\ o.kind = "recreate" /\ o.step = "dispose"
        /\ journal' = [Logged("dispose") EXCEPT !.watcher = "disposed"]
        /\ pending' = {}
        /\ ops' = {[o EXCEPT !.step = RecreateStepAfter(o.step, o.clear)]}
        /\ UNCHANGED <<systemState, errorMessage, generation, workspace, cache, services,
                       ignoreVars, storeVars, probeVars>>

\* The ignore rules are loaded again.
RecreateReload ==
    \E o \in ops :
        /\ o.kind = "recreate" /\ o.step = "reload"
        /\ controller' = loadIgnorePatterns(controller, rooFile, gitFile)
        /\ resolved' = TRUE
        /\ journal' = Logged("reload")
        /\ ops' = {[o EXCEPT !.step = RecreateStepAfter(o.step, o.clear)]}
        /\ UNCHANGED <<rooFile, gitFile, systemState, errorMessage, generation, workspace,
                       cache, pending, services, storeVars, probeVars>>

\* Scanner, embedder, vector store and file watcher are built from the new
\* configuration; every known path is due for the scan.
RecreateRebuild ==
    \E o \in ops :
        /\ o.kind = "recreate" /\ o.step = "rebuild"
        /\ services' = recreateServices(services)
        /\ journal' = [Logged("rebuild") EXCEPT !.watcher = "watching"]
        /\ pending' = IndexPaths
        /\ ops' = {[o EXCEPT !.step = RecreateStepAfter(o.step, o.clear)]}
        /\ UNCHANGED <<systemState, errorMessage, generation, workspace, cache, ignoreVars,
                       storeVars, probeVars>>

\* VectorStore.clear() of a clear request; its failure ends the recreate.
RecreateClearStore ==
    \E o \in ops, clearFails \in BOOLEAN :
        /\ o.kind = "recreate" /\ o.step = "clearStore"
        /\ LET out == clearCollection(collection, clearFails)
           IN /\ collection' = out.col
              /\ IF out.threw
                 THEN /\ systemState' = "Error"
                      /\ errorMessage' = "connectivity"
                      /\ ops' = {}
                      /\ pending' = {}
                 ELSE /\ ops' = {[o EXCEPT !.step = RecreateStepAfter(o.step, o.clear)]}
                      /\ UNCHANGED <<systemState, errorMessage, pending>>
        /\ journal' = Logged("clearStore")
        /\ UNCHANGED <<generation, workspace, cache, services, ignoreVars, lastCall,
                       probeVars>>

\* ChangeCache.clear() of a clear request.
RecreateClearCache ==
    \E o \in ops :
        /\ o.kind = "recreate" /\ o.step = "clearCache"
        /\ cache' = [path \in IndexPaths |-> 0]
        /\ journal' = Logged("clearCache")
        /\ ops' = {[o EXCEPT !.step = RecreateStepAfter(o.step, o.clear)]}
        /\ UNCHANGED <<systemState, errorMessage, generation, workspace, pending, services,
                       ignoreVars, storeVars, probeVars>>

\* The scan takes one file: its records are removed when it is gone or
\* ignored, written when its content is not the cached one, left otherwise.
RecreateScan ==
    \E o \in ops, path \in IndexPaths :
        /\ o.kind = "recreate" /\ o.step = "scan" /\ path \in pending
        /\ pending' = pending \ {path}
        /\ journal' = Logged("scan")
        /\ IF ToRemove(path)
           THEN /\ collection' = deletePointsByFilePath(collection, path, DeleteTopK).col
                /\ cache' = [cache EXCEPT ![path] = 0]
           ELSE IF NeedsIndexing(path)
                THEN /\ collection' =
                            upsertPoints(
                                deletePointsByFilePath(collection, path, DeleteTopK).col,
                                ChunksOf(path, workspace[path]), FALSE).col
                     /\ cache' = [cache EXCEPT ![path] = workspace[path]]
                ELSE UNCHANGED <<collection, cache>>
        /\ UNCHANGED <<systemState, errorMessage, generation, workspace, ops, services,
                       ignoreVars, lastCall, probeVars>>

\* Indexing -> Indexed
RecreateFinish ==
    \E o \in ops :
        /\ o.kind = "recreate" /\ o.step = "scan" /\ pending = {}
        /\ ops' = {}
        /\ systemState' = "Indexed"
        /\ UNCHANGED <<errorMessage, generation, workspace, cache, pending, journal, services,
                       ignoreVars, storeVars, probeVars>>

NextRecreate ==
    \/ RecreateStart \/ RecreateDispose \/ RecreateReload \/ RecreateRebuild
    \/ RecreateClearStore \/ RecreateClearCache \/ RecreateScan \/ RecreateFinish

SpecRecreate == InitRecreate /\ [][NextRecreate]_vars

(***************************************************************************)
(* Claims about ignore-rule resolution (SpecIgnore).                       *)
(***************************************************************************)
NonBlankLines(c) == Range(c) \ {BlankLine}
ActiveRules == Range(controller.ignoreInstance)
RooUsable == rooFile.exists /\ rooFile.readable /\ NonBlankLines(rooFile.content) # {}
RooAbsentOrEmpty ==
    ~rooFile.exists \/ (rooFile.readable /\ NonBlankLines(rooFile.content) = {})

\* C1: after a resolution whose reads succeeded, a primary .rooignore with
\* non-blank content is the only active source, even beside a .gitignore;
\* with the primary absent or blank a .gitignore is the active source; with
\* neither file the built-in default patterns are active.
C1_SourcePrecedence ==
    resolved =>
        /\ RooUsable =>
              /\ controller.currentIgnoreSource = "rooignore"
              /\ ActiveRules = NonBlankLines(rooFile.content) \cup {NamePattern(".rooignore")}
        /\ (RooAbsentOrEmpty /\ gitFile.exists /\ gitFile.readable) =>
              /\ controller.currentIgnoreSource = "gitignore"
              /\ ActiveRules = NonBlankLines(gitFile.content) \cup {NamePattern(".gitignore")}
        /\ (RooAbsentOrEmpty /\ ~gitFile.exists) =>
              /\ controller.currentIgnoreSource = "default"
              /\ ActiveRules = Range(defaultPatterns)

\* C1 witness: both files hold patterns and the primary alone is active.
C1_Witness ==
    /\ resolved /\ RooUsable
    /\ gitFile.exists /\ gitFile.readable /\ NonBlankLines(gitFile.content) # {}
    /\ controller.currentIgnoreSource = "rooignore"
    /\ DirPattern("node_modules") \notin ActiveRules

\* C16: after a resolution, an ignore file whose read failed counts as
\* absent: with an unreadable .rooignore a readable .gitignore is the active
\* source with its rules, and the default patterns are active when no
\* .gitignore is there or when its read fails as well.
C16_ReadErrorFallsThrough ==
    resolved =>
        LET rooFailed == rooFile.exists /\ ~rooFile.readable
            gitFailed == gitFile.exists /\ ~gitFile.readable
        IN /\ (rooFailed /\ gitFile.exists /\ gitFile.readable) =>
                  /\ controller.currentIgnoreSource = "gitignore"
                  /\ ActiveRules =
                         NonBlankLines(gitFile.content) \cup {NamePattern(".gitignore")}
           /\ ((rooFailed \/ RooAbsentOrEmpty) /\ (gitFailed \/ ~gitFile.exists)) =>
                  /\ controller.currentIgnoreSource = "default"
                  /\ ActiveRules = Range(defaultPatterns)

(***************************************************************************)
(* Claims about search (SpecStore).                                        *)
(***************************************************************************)
SearchReturned == lastCall.op = "search" /\ ~lastCall.threw

\* C6: every result of a search has a score of at least the minimum score
\* in force, whatever the backend's query handed back.
C6_ResultsAtLeastMinScore ==
    SearchReturned =>
        \A i \in 1..Len(lastCall.results) : lastCall.results[i].score >= lastCall.minScore

\* C7 as stated: each result's score is greater than the score of the
\* result after it.
C7_StrictlyDescending ==
    SearchReturned =>
        \A i \in 1..(Len(lastCall.results) - 1) :
            lastCall.results[i].score > lastCall.results[i + 1].score

\* C7 amended: each result's score is greater than or equal to the score of
\* the result after it (results of equal score stay adjacent).
C7_Descending ==
    SearchReturned =>
        \A i \in 1..(Len(lastCall.results) - 1) :
            lastCall.results[i].score >= lastCall.results[i + 1].score

\* C7 witness: the backend handed back two records in ascending order and
\* the search returned both.
C7_Witness ==
    /\ SearchReturned
    /\ Len(lastCall.returned) = 2 /\ Len(lastCall.results) = 2
    /\ lastCall.returned[1].score # NoScore
    /\ lastCall.returned[1].score < lastCall.returned[2].score

(***************************************************************************)
(* Claims about the index manager (Spec).                                  *)
(***************************************************************************)
Stale(o) == o.gen # generation
Quiescent == systemState = "Indexed" /\ pending = {}
StoredPaths == {x.filePath : x \in collection.points}

\* C2: once the generation has been bumped, no step of an operation of an
\* older generation commits anything: when it resumes it is dropped, and
\* neither the store, the cache nor the indexing state changes (so it is not
\* retried and the state does not become Error); and the full pass of a
\* clear request starts under the current generation on a cleared store and
\* a cleared cache.
C2_StaleWorkDiscarded ==
    [][ /\ \A o \in ops :
              (Stale(o) /\ o \notin ops') =>
                  /\ ops' = ops \ {o}
                  /\ collection' = collection /\ cache' = cache
                  /\ systemState' = systemState /\ errorMessage' = errorMessage
        /\ \A n \in ops' \ ops :
              (n.kind = "pass" /\ n.clear /\ \A o \in ops : o.kind = "pass" => o.gen # n.gen) =>
                  /\ n.gen = generation' /\ pending' = IndexPaths
                  /\ collection'.points = {} /\ \A path \in IndexPaths : cache'[path] = 0
      ]_vars

\* Scenario E: a clear request arrived while a pass waited on its upsert;
\* the pass resumed and its upsert was dropped, the store is cleared and the
\* full pass of the new generation is in flight.
C2_Witness ==
    /\ journal.kind = "discard" /\ journal.step = "upsert" /\ journal.gen < generation
    /\ \E n \in ops : n.kind = "pass" /\ n.clear /\ n.gen = generation
    /\ collection.points = {}

\* C3: the cache entry of a file is written with a hash only when the store
\* already holds that content's chunks; a file whose upsert failed, was
\* discarded or never ran keeps its previous cache entry.
C3_CacheAfterUpsert ==
    [][ \A path \in IndexPaths :
            (cache'[path] # cache[path] /\ cache'[path] # 0) =>
                /\ ChunksOf(path, cache'[path]) \subseteq collection.points
                /\ collection' = collection
      ]_vars

\* A file's upsert failed on a file that is still not in the cache, so the
\* next pass takes it again; the other file's entry was written.
C3_Witness ==
    /\ systemState = "Error" /\ errorMessage = "connectivity"
    /\ workspace[SrcFile] # 0 /\ cache[SrcFile] = 0
    /\ cache[DepFile] # 0 /\ ChunksOf(DepFile, cache[DepFile]) \subseteq collection.points

C5_ValidationFailure ==
    [][ \A o \in ops :
            (o.kind = "validate" /\ o.gen = generation /\ o.probe.data # "one") =>
                /\ systemState = "Standby"
                /\ collection' = collection
                /\ \A n \in ops' \ ops : n.kind # "pass"
                /\ IF o \in ops' THEN systemState' = "Standby"
                   ELSE /\ systemState' = "Error"
                        /\ errorMessage' # ""
                        /\ (o.probe.status = 404 =>
                                errorMessage' = "embeddings:lmstudio.modelNotFound")
      ]_vars

\* The first start failed its validation with HTTP 404: the state is Error,
\* and no collection was ever created.
C5_Witness ==
    /\ systemState = "Error" /\ errorMessage = "embeddings:lmstudio.modelNotFound"
    /\ ~collection.exists /\ ops = {} /\ generation = 0

\* C8: a file is sent to the embedder only when its hash differs from the
\* cached hash, and a file left as unchanged has no embedding call in
\* flight.
C8_UnchangedNotEmbedded ==
    /\ (journal.kind = "embed" => journal.version # journal.cached)
    /\ (journal.kind = "unchanged" =>
            /\ journal.version = journal.cached
            /\ \A o \in ops : o.gen = generation => o.step # "embed")

\* A later pass found an indexed file unchanged and made no embedding call.
C8_Witness ==
    /\ journal.kind = "unchanged" /\ journal.version # 0
    /\ ChunksOf(journal.path, journal.version) \subseteq collection.points

EndsWith(seq, tail) ==
    /\ Len(tail) <= Len(seq)
    /\ SubSeq(seq, Len(seq) - Len(tail) + 1, Len(seq)) = tail

\* C11: when the backend answers the first request of a batch with status
\* 429, the call does not fail but waits for a retry; when the second
\* request then succeeds, the call carries no error, it has waited exactly
\* once, and the embeddings of the batch were appended to the result.
C11_RetryAfterRateLimit ==
    /\ embedder.answers = <<Answer(429)>> =>
           embedder.pc \in {"backoff", "request"} /\ embedder.error = NoError
    /\ embedder.answers = <<Answer(429), AnswerOk>> =>
           /\ embedder.pc \in {"loop", "returned"}
           /\ embedder.error = NoError
           /\ embedder.delays = <<INITIAL_DELAY_MS>>
           /\ EndsWith(embedder.allEmbeddings, BatchEmbeddings(embedder.currentBatch))

\* A call returned whose last batch needed two requests: 429, then success.
C11_Witness ==
    /\ embedder.pc = "returned"
    /\ embedder.answers = <<Answer(429), AnswerOk>>
    /\ embedder.allEmbeddings # <<>>

Last(seq) == seq[Len(seq)]
ServerError(answer) == answer.status \in 500..599
FatalAnswer(answer) ==
    answer # AnswerOk /\ answer.status # 429 /\ ~ServerError(answer)

\* C12: a request of a batch that fails with a 5xx status while attempts
\* remain is followed by a backoff and another request, as after a 429, and
\* leaves no error on the call.
C12_ServerErrorRetried ==
    (/\ embedder.answers # <<>>
     /\ ServerError(Last(embedder.answers))
     /\ Len(embedder.answers) < MAX_RETRIES) =>
        embedder.pc \in {"backoff", "request"} /\ embedder.error = NoError

\* C13: a request that fails with anything but a 429 or a 5xx status ends
\* the call at once: the call has thrown, the error it carries is the one of
\* this failure, no backoff was started for it, and it is the last request.
C13_OtherFailureFatal ==
    (embedder.answers # <<>> /\ FatalAnswer(Last(embedder.answers))) =>
        /\ embedder.pc = "threw"
        /\ embedder.error.cause = Last(embedder.answers).status
        /\ Len(embedder.delays) = Len(embedder.answers) - 1

\* A first request answered with 401, or a second one answered with a
\* network error after a retried rate limit, ended the call.
C13_Witness ==
    /\ embedder.pc = "threw"
    /\ embedder.answers \in {<<Answer(401)>>, <<Answer(429), Answer(0)>>}
    /\ embedder.error.cause = Last(embedder.answers).status

WithinItemLimit(text) == text.length <= 4 * MAX_ITEM_TOKENS
Oversized(text) == ~WithinItemLimit(text)

\* C15: a call that returns hands back one embedding for each input text
\* within the item limit, in the order of the input, and has logged one
\* warning for each oversized text; at no time was an oversized text part
\* of a batch sent to the backend.
C15_OneEmbeddingPerAcceptedText ==
    /\ \A text \in embedder.sent : WithinItemLimit(text)
    /\ embedder.pc = "returned" =>
           /\ embedder.allEmbeddings =
                  BatchEmbeddings(SelectSeq(embedder.texts, WithinItemLimit))
           /\ embedder.warned = SelectSeq(embedder.texts, Oversized)

\* A call returned for a list that has an oversized text between two
\* accepted ones.
C15_Witness ==
    /\ embedder.pc = "returned"
    /\ Len(embedder.texts) = 3
    /\ Oversized(embedder.texts[2])
    /\ Len(embedder.allEmbeddings) = 2
    /\ embedder.warned = <<embedder.texts[2]>>

(***************************************************************************)
(* Claims about validateAccess and filterPaths (SpecFilter).               *)
(***************************************************************************)
\* Whether the active rules let a spelled path through, said directly.
Allowed(filePath) ==
    filePath.path.outside \/ ~Ignores(controller.ignoreInstance, filePath.path)

\* C17: validateAccess answers true for every path that lies outside the
\* workspace root, whatever rules are active.
C17_OutsideAllowed ==
    (/\ query.op = "validateAccess"
     /\ query.paths[1].path.outside) => query.allowed

\* validateAccess allowed a path outside the root whose directory and
\* extension the active rules would ignore inside the root.
C17_Witness ==
    /\ query.op = "validateAccess"
    /\ query.paths[1].path = OutsideFile
    /\ Ignores(controller.ignoreInstance, OutsideFile)
    /\ query.allowed

\* C18: a filterPaths call during which the evaluation of a path throws
\* returns the empty list.
C18_FilterFailsClosed ==
    (query.op = "filterPaths" /\ query.throwAt # 0) => query.result = <<>>

\* The evaluation threw at the second path after the first had been found
\* allowed, and nothing was returned.
C18_Witness ==
    /\ query.op = "filterPaths" /\ query.throwAt = 2
    /\ Allowed(query.paths[1])
    /\ query.result = <<>>

\* C19: a filterPaths call in which nothing throws returns exactly the
\* input paths that validateAccess allows, in input order and as the caller
\* spelled them; an empty input gives an empty result.
C19_FilterKeepsAllowed ==
    (query.op = "filterPaths" /\ query.throwAt = 0) =>
        /\ query.result = SelectSeq(query.paths, Allowed)
        /\ query.paths = <<>> => query.result = <<>>

\* An ignored path was dropped and an allowed one, spelled with a leading
\* "./", was returned as spelled.
C19_Witness ==
    /\ query.op = "filterPaths" /\ query.throwAt = 0
    /\ Len(query.paths) = 2
    /\ ~Allowed(query.paths[1])
    /\ query.paths[2].form = "dotted"
    /\ query.result = <<query.paths[2]>>

(***************************************************************************)
(* Claims about the services of the index manager (Spec).                  *)
(***************************************************************************)
\* C20: however often the services are recreated, the manager has created
\* one ignore controller only; that controller keeps its watchers, and it
\* is the one handed to the service factory at every creation.
C20_ResolverPreserved ==
    /\ services.instances <= 1
    /\ services.controller # 0 =>
           /\ services.controller = 1
           /\ services.watching
           /\ services.handed = services.controller

\* A recreate after the first start has run: the pass of the new generation
\* works with the controller of the first start.
C20_Witness ==
    /\ generation >= 1
    /\ \E o \in ops : o.kind = "pass" /\ o.gen = generation
    /\ services.controller = 1 /\ services.handed = 1 /\ services.watching

(***************************************************************************)
(* Claims about the operations of the vector store (SpecStore).            *)
(***************************************************************************)
Succeeded(op) == lastCall.op = op /\ ~lastCall.threw

\* C21: an initialize that returns has created the collection, empty and
\* with the configured dimension, and answered true exactly when there was
\* none; on an existing collection it answers false and changes nothing;
\* and an initialize called right after it answers false and changes
\* nothing.
C21_InitializeIdempotent ==
    Succeeded("initialize") =>
        /\ lastCall.created = ~lastCall.before.exists
        /\ collection.exists /\ collection.dimension = VectorSize
        /\ lastCall.before.exists => collection = lastCall.before
        /\ ~lastCall.before.exists => collection.points = {}
        /\ LET again == initialize(collection, FALSE, FALSE)
           IN ~again.threw /\ ~again.value /\ again.col = collection

\* initialize was called on a collection that held records: it answered
\* false and the records are still there.
C21_Witness ==
    /\ Succeeded("initialize")
    /\ lastCall.before.exists /\ lastCall.before.points # {}
    /\ ~lastCall.created /\ collection.points = lastCall.before.points

Ids(points) == {x.id : x \in points}

\* C22: an upsert of no points makes no backend call, does not throw and
\* leaves the collection as it was; an upsert of points that returns
\* leaves each of them stored, one point per id, and every point of
\* another id as it was.
C22_UpsertOverwrites ==
    lastCall.op = "upsertPoints" =>
        /\ lastCall.points = {} =>
               ~lastCall.threw /\ lastCall.calls = 0 /\ collection = lastCall.before
        /\ (lastCall.points # {} /\ ~lastCall.threw) =>
               /\ lastCall.points \subseteq collection.points
               /\ \A x, y \in collection.points : x.id = y.id => x = y
               /\ {x \in collection.points : x.id \notin Ids(lastCall.points)} =
                      {x \in lastCall.before.points : x.id \notin Ids(lastCall.points)}

\* An upsert replaced a stored point by a point of the same id and another
\* content.
C22_Witness ==
    /\ Succeeded("upsertPoints")
    /\ \E x \in lastCall.before.points, y \in lastCall.points :
           x.id = y.id /\ x # y /\ x \notin collection.points /\ y \in collection.points

\* C23: after a deletion by file path returns, the collection holds no
\* record of any path that was named, however many records it had.
C23_NoRecordOfDeletedPath ==
    (/\ lastCall.op \in {"deletePointsByFilePath", "deletePointsByMultipleFilePaths"}
     /\ ~lastCall.threw) =>
        \A p \in Range(lastCall.filePaths) : collection.points[p] = 0

\* C24: after a clearCollection that returns, the collection exists with
\* the dimension it had and holds no record; an initialize that follows
\* answers false, and a search that follows returns no result.
C24_ClearKeepsCollection ==
    Succeeded("clearCollection") =>
        /\ collection.exists
        /\ collection.dimension = lastCall.before.dimension
        /\ collection.dimension = VectorSize
        /\ collection.points = {}
        /\ LET again == initialize(collection, FALSE, FALSE)
           IN ~again.threw /\ ~again.value
        /\ \A minScore \in (0..ScoreLevels) \cup {NoScore} :
               \A searchResults \in SeqsUpTo(BackendRecords(collection.points), MaxResults) :
                   LET out == search(collection, minScore, searchResults, FALSE)
                   IN ~out.threw /\ out.value = <<>>

\* A collection that held records was cleared.
C24_Witness ==
    /\ Succeeded("clearCollection")
    /\ lastCall.before.points # {}
    /\ collection.exists /\ collection.points = {}

IsUnder(directoryPrefix, filePath) ==
    /\ Len(directoryPrefix) <= Len(filePath.dirs)
    /\ SubSeq(filePath.dirs, 1, Len(directoryPrefix)) = directoryPrefix

\* C26: every result of a search with a directory prefix is a record of a
\* file under that directory; a record whose path has one of the prefix's
\* directory names elsewhere, or only the first of them, is not returned.
C26_ResultsUnderPrefix ==
    (SearchReturned /\ lastCall.directoryPrefix # <<>>) =>
        \A i \in 1..Len(lastCall.results) :
            IsUnder(lastCall.directoryPrefix, lastCall.results[i].filePath)

\* C27: a call of the vector store during which a backend call failed has
\* thrown.
C27_BackendFailureSurfaces ==
    (lastCall.op # "none" /\ lastCall.failed) => lastCall.threw

(***************************************************************************)
(* Claims about the manager's lifecycle (SpecLifecycle).                   *)
(***************************************************************************)
\* C28: in every state a disable request, or the finding that a required
\* configuration field is missing or invalid, can be taken, and it leaves
\* the manager in Standby with no validation and no pass in flight and no
\* job waiting.
C28_StopLeadsToStandby ==
    /\ ENABLED StopIndexing
    /\ journal.kind = "stop" =>
           /\ systemState = "Standby"
           /\ ops = {}
           /\ pending = {}

\* A pass that had written records was stopped by a disable request.
C28_Witness ==
    /\ journal.kind = "stop" /\ journal.step = "Indexing"
    /\ systemState = "Standby" /\ errorMessage = ""
    /\ collection.points # {}

(***************************************************************************)
(* Claims about the FastEmbed embedder (SpecFastEmbed).                    *)
(***************************************************************************)
\* C29: createEmbeddings of the FastEmbed embedder, called with no text
\* and a model it knows, does not throw, returns no embedding and does not
\* call the model.
C29_EmptyInputEmptyResult ==
    (/\ embedder.pc \in {"fastReturned", "fastThrew"}
     /\ embedder.texts = <<>>
     /\ embedder.model \in AvailableModels) =>
        /\ ~embedder.threw
        /\ embedder.embeddings = <<>>
        /\ embedder.calls = 0

(***************************************************************************)
(* Claims about the unified ignore controller (SpecUnified).               *)
(***************************************************************************)
IgnoreFilesOf == {rooFile, gitFile.parent, gitFile.cwd}
PresentIgnoreFiles ==
    (IF rooFile.exists THEN 1 ELSE 0) + (IF gitFile.parent.exists THEN 1 ELSE 0)
        + (IF gitFile.cwd.exists THEN 1 ELSE 0)
NothingToRead ==
    \/ PresentIgnoreFiles = 0
    \/ PresentIgnoreFiles = 1 /\ \A f \in IgnoreFilesOf : f.exists => ~f.readable

\* C30: a unified controller that has loaded the ignore files as they are,
\* when no .rooignore and no .gitignore exists or the only one that exists
\* cannot be read, answers validateAccess with true for every path,
\* validateCommand with undefined for every command and getInstructions
\* with undefined.
C30_NothingIgnoredWithoutFiles ==
    (resolved /\ NothingToRead) =>
        /\ query.op = "validateAccess" => query.allowed
        /\ query.op = "validateCommand" => query.result = <<>>
        /\ query.op = "getInstructions" => query.result = <<NoInstructions>>

(***************************************************************************)
(* Further claims about the LM Studio embedder (SpecEmbed).                *)
(***************************************************************************)
AllRateLimited(answers) == \A i \in 1..Len(answers) : answers[i].status = 429

\* C31: for one batch the embedder sends at most MAX_RETRIES requests: no
\* request or backoff is pending once MAX_RETRIES requests were answered;
\* when the last of them failed the call has thrown an error to its
\* caller; and a batch whose every request was rate limited is given up
\* only after MAX_RETRIES requests.
C31_AttemptsCapped ==
    /\ Len(embedder.answers) <= MAX_RETRIES
    /\ embedder.pc \in {"request", "backoff"} => Len(embedder.answers) < MAX_RETRIES
    /\ (Len(embedder.answers) = MAX_RETRIES /\ Last(embedder.answers) # AnswerOk) =>
           embedder.pc = "threw" /\ embedder.error.wrapped
    /\ (embedder.pc = "threw" /\ AllRateLimited(embedder.answers)) =>
           Len(embedder.answers) = MAX_RETRIES

C31_Witness ==
    /\ embedder.pc = "threw"
    /\ Len(embedder.answers) = MAX_RETRIES
    /\ AllRateLimited(embedder.answers)

\* The estimate ceil(length / 4), said without division: the least n with
\* 4n >= length.
TokenEstimate(text) ==
    CHOOSE n \in 0..text.length : 4 * n >= text.length /\ 4 * (n - 1) < text.length

RECURSIVE TokenTotal(_)
TokenTotal(batch) ==
    IF batch = <<>> THEN 0 ELSE TokenEstimate(Head(batch)) + TokenTotal(Tail(batch))

\* C32: every sub-batch that createEmbeddings sends to the backend has an
\* estimated token total of at most MAX_BATCH_TOKENS and holds no item
\* whose estimate exceeds MAX_ITEM_TOKENS.
C32_BatchWithinBudget ==
    embedder.pc \in {"request", "backoff"} =>
        /\ embedder.currentBatch # <<>>
        /\ TokenTotal(embedder.currentBatch) <= MAX_BATCH_TOKENS
        /\ \A i \in 1..Len(embedder.currentBatch) :
               TokenEstimate(embedder.currentBatch[i]) <= MAX_ITEM_TOKENS

\* A batch is sent that had to leave an acceptable text for the next batch.
C32_Witness ==
    /\ embedder.pc = "request"
    /\ embedder.remaining # <<>>
    /\ TokenEstimate(Head(embedder.remaining)) <= MAX_ITEM_TOKENS
    /\ TokenTotal(embedder.currentBatch) + TokenEstimate(Head(embedder.remaining))
           > MAX_BATCH_TOKENS

(***************************************************************************)
(* Claims about the file watcher (SpecWatch).                              *)
(***************************************************************************)
JobTodo == UNION {job.todo : job \in ops}

\* C33: the events of one burst become one job; every path of the burst
\* is in that job until the job has handled it, so no event is lost; and
\* no path is embedded more than once for the burst.
C33_BurstCoalesced ==
    /\ Cardinality(ops) <= 1
    /\ journal.jobs <= 1
    /\ \A path \in journal.paths :
           \/ path \in JobTodo
           \/ path \in journal.removed
           \/ journal.embedded[path] >= 1
    /\ \A path \in IndexPaths : journal.embedded[path] <= 1

\* The job of a burst of two events on two files is done, and both files
\* were embedded.
C33_Witness ==
    /\ ops = {}
    /\ journal.paths = IndexPaths
    /\ ~journal.ignore
    /\ \A path \in IndexPaths : journal.embedded[path] = 1

\* Whether the ignore files, as they were when the burst was flushed, let a
\* path through.
AllowedAtFlush(path) ==
    validateAccess(loadIgnorePatterns(NewController, journal.roo, gitFile), path)

StepRank(step) ==
    CASE step = "bump" -> 1
      [] step = "dispose" -> 2
      [] step = "reload" -> 3
      [] step = "rebuild" -> 4
      [] step = "clearStore" -> 5
      [] step = "clearCache" -> 6
      [] OTHER -> 7

TimesRun(step) == Cardinality({i \in 1..Len(journal.log) : journal.log[i] = step})
ClearRequested == \E o \in ops : o.kind = "recreate" /\ o.clear

\* C35: the steps of a recreate run in the order bump, dispose, reload,
\* rebuild, (clear store, clear cache,) scan, none of the first six more
\* than once and none before the one it follows; the operation carries the
\* bumped generation from its first step on; the watcher is disposed when
\* the rules are reloaded; and the first file of a clear request is
\* scanned with an empty store and an empty cache.
C35_RecreateOrder ==
    /\ \A i \in 1..Len(journal.log) :
           /\ StepRank(journal.log[i]) <= 6 => TimesRun(journal.log[i]) = 1
           /\ i > 1 => StepRank(journal.log[i - 1]) <= StepRank(journal.log[i])
           /\ StepRank(journal.log[i]) \in 2..4 =>
                  StepRank(journal.log[i - 1]) = StepRank(journal.log[i]) - 1
           /\ journal.log[i] = "clearCache" => journal.log[i - 1] = "clearStore"
    /\ journal.log # <<>> => journal.log[1] = "bump"
    /\ \A o \in ops :
           /\ o.gen = generation /\ generation > 0
           /\ o.step = "reload" => journal.watcher = "disposed"
           /\ o.step = "scan" => TimesRun("reload") = 1 /\ TimesRun("rebuild") = 1
           /\ (o.step = "scan" /\ o.clear) =>
                  /\ TimesRun("clearStore") = 1 /\ TimesRun("clearCache") = 1
                  /\ TimesRun("scan") = 0 =>
                         collection.points = {} /\ \A path \in IndexPaths : cache[path] = 0

\* A clear request has scanned its first file, in an index that held
\* records before.
C35_Witness ==
    /\ ClearRequested
    /\ TimesRun("scan") = 1
    /\ TimesRun("clearCache") = 1
    /\ collection.points # {}

(***************************************************************************)
(* Claims about the loads started by the controller's watchers             *)
(* (SpecReload).                                                           *)
(***************************************************************************)
AllLoadsFinished == ops = {}

\* The rule sets that hold the patterns of one source, each added once.
RulesOfRooIgnore ==
    {PatternsOf(f.content) \o <<NamePattern(".rooignore")>> :
         f \in {g \in ReloadRooFiles : g.readable /\ NonBlankLines(g.content) # {}}}
RulesOfGitIgnore ==
    {PatternsOf(f.content) \o <<NamePattern(".gitignore")>> :
         f \in {g \in ReloadGitFiles : g.readable}}

\* C36: once every load started by a watch event has finished, the rule
\* set holds the patterns of exactly one source, each once, and the
\* reported active source names that source.
C36_OneSourceAfterReloads ==
    AllLoadsFinished =>
        \/ /\ controller.currentIgnoreSource = "rooignore"
           /\ controller.ignoreInstance \in RulesOfRooIgnore
        \/ /\ controller.currentIgnoreSource = "gitignore"
           /\ controller.ignoreInstance \in RulesOfGitIgnore
        \/ /\ controller.currentIgnoreSource = "default"
           /\ controller.ignoreInstance = defaultPatterns

\* The source and the rules that the precedence rule gives for the ignore
\* files as they are.
PrecedenceSource ==
    IF RooUsable THEN "rooignore" ELSE IF gitFile.exists THEN "gitignore" ELSE "default"
PrecedenceRules ==
    IF RooUsable THEN NonBlankLines(rooFile.content) \cup {NamePattern(".rooignore")}
    ELSE IF gitFile.exists
         THEN NonBlankLines(gitFile.content) \cup {NamePattern(".gitignore")}
         ELSE Range(defaultPatterns)

\* C37: once the ignore files have stopped changing and every load has
\* finished, the active source and its patterns are the ones the
\* precedence rule gives for the files as they are now.
C37_FinalContentWins ==
    AllLoadsFinished =>
        /\ controller.currentIgnoreSource = PrecedenceSource
        /\ ActiveRules = PrecedenceRules

\* C38: createEmbeddings terminates when the backend answers each request:
\* every pass of the batching loop over a non-empty remaining list makes
\* the list shorter, and a call that is in its loop comes to return or to
\* throw.
C38_CreateEmbeddingsTerminates ==
    /\ [][(embedder.pc = "loop" /\ embedder.remaining # <<>>) =>
              Len(embedder'.remaining) < Len(embedder.remaining)]_vars
    /\ (embedder.pc = "loop") ~> (embedder.pc \in {"returned", "threw"})

\* The loop is in a later pass: a batch was embedded, another is being
\* sent, and texts are still waiting.
C38_Witness ==
    /\ embedder.pc = "request"
    /\ embedder.allEmbeddings # <<>>
    /\ embedder.remaining # <<>>

(***************************************************************************)
(* Claims about both embedders (SpecEmbedders).                            *)
(***************************************************************************)
InLmStudioCall == embedder.pc \in {"loop", "request", "backoff", "returned", "threw"}
InFastEmbedCall == embedder.pc \in {"fastReturned", "fastThrew"}

\* Whether the answer to a request is one the retry loop gives up on.
GivesUpOn(answer, attempts) ==
    /\ answer # AnswerOk
    /\ ~(answer.status = 429 /\ attempts + 1 < MAX_RETRIES)

\* What the caller of createEmbeddings holds once the call has ended.
Received ==
    IF embedder.pc \in {"returned", "fastReturned"}
    THEN IF InFastEmbedCall THEN embedder.embeddings ELSE embedder.allEmbeddings
    ELSE <<>>

\* C39: a createEmbeddings call one of whose sub-batches failed fatally
\* ends with an error and hands no embedding to its caller, and sends no
\* sub-batch after the failed one.
C39_FatalBatchFailsCall ==
    /\ [][(embedder.pc = "request" /\ embedder'.pc # "request"
             /\ GivesUpOn(Last(embedder'.answers), embedder.attempts)) =>
                 embedder'.pc = "threw"]_vars
    /\ [][embedder.pc = "threw" => embedder'.pc = "idle"]_vars
    /\ [](InLmStudioCall =>
              /\ embedder.pc = "returned" => embedder.error = NoError
              /\ embedder.pc = "threw" => embedder.error.wrapped /\ Received = <<>>)
    /\ [](InFastEmbedCall =>
              /\ embedder.threw = (embedder.pc = "fastThrew")
              /\ (embedder.failAt \in 1..embedder.calls) =>
                     /\ embedder.pc = "fastThrew"
                     /\ embedder.calls = embedder.failAt
                     /\ Received = <<>>)

\* The second sub-batch of an LM Studio call failed after the first had
\* been embedded.
C39_Witness ==
    /\ embedder.pc = "threw"
    /\ embedder.allEmbeddings # <<>>
    /\ embedder.remaining # <<>>

\* The second sub-batch of a FastEmbed call failed.
C39_WitnessFastEmbed ==
    /\ embedder.pc = "fastThrew"
    /\ embedder.failAt = 2 /\ embedder.calls = 2

(***************************************************************************)
(* Claims about deletion by file path (SpecStore).                         *)
(***************************************************************************)
IsDeletionByPath ==
    lastCall.op \in {"deletePointsByFilePath", "deletePointsByMultipleFilePaths"}

\* The records of points whose file is not among filePaths.
RecordsOfOtherPaths(points, filePaths) ==
    {x \in points : x.filePath \notin Range(filePaths)}

\* C40: a deletion by file path, whether it returns or throws, leaves every
\* record of a path that was not named as it was; with an empty list of
\* paths it makes no backend call, does not throw and changes nothing.
C40_DeletionTouchesNamedPathsOnly ==
    IsDeletionByPath =>
        /\ RecordsOfOtherPaths(collection.points, lastCall.filePaths) =
               RecordsOfOtherPaths(lastCall.before.points, lastCall.filePaths)
        /\ lastCall.filePaths = <<>> =>
               ~lastCall.threw /\ lastCall.calls = 0 /\ collection = lastCall.before

\* A deletion removed the records of a named path from a collection that
\* also holds records of another path.
C40_Witness ==
    /\ IsDeletionByPath /\ ~lastCall.threw
    /\ \E x \in lastCall.before.points :
           x.filePath \in Range(lastCall.filePaths) /\ x \notin collection.points
    /\ RecordsOfOtherPaths(collection.points, lastCall.filePaths) # {}

\* A deletion with an empty list of paths on a collection that holds records.
C40_WitnessEmptyList ==
    /\ lastCall.op = "deletePointsByMultipleFilePaths"
    /\ lastCall.filePaths = <<>>
    /\ collection.points # {}
====
